---- MODULE Spec2Model ----
(***************************************************************************)
(* A model of abbrevIso: PrefixTree.js, collation.js and AbbrevIso.js      *)
(* (v1.2).  A JavaScript string is a sequence of characters; a character   *)
(* is a one-letter TLA+ string, except that the non-ASCII characters are   *)
(* written "uXXXX" after their code point and the tab is written "TAB".    *)
(* The strings given to the engine are built from the characters that     *)
(* CodeTable lists (all of them in the BMP, so that code points and UTF-16 *)
(* units coincide); the stand-alone tree is also given keys with the two   *)
(* units of U+1F600.                                                       *)
(***************************************************************************)
EXTENDS FiniteSets, Integers, Sequences, TLC

VARIABLES
  root_,              \* PrefixTree.root_ of the stand-alone tree
  added,              \* history: the (position, object) pairs given to add
  ltwa,               \* constructor argument: the LTWA lines (Array form)
  shortWords,         \* constructor argument: the short words (Array form)
  phase,              \* "new" | "ready" | "failed" | "called"
  patterns_,          \* the LTWAPattern objects created, by identity
  badPatterns_,       \* AbbrevIso.badPatterns_ (object identities, in order)
  nonprefixPatterns_, \* AbbrevIso.nonprefixPatterns_
  dictPatterns_,      \* AbbrevIso.dictPatterns_
  size_,              \* AbbrevIso.size_
  shortWords_,        \* AbbrevIso.shortWords_
  call                \* the query that was called last, and what it gave

vars == <<root_, added, ltwa, shortWords, phase, patterns_, badPatterns_,
          nonprefixPatterns_, dictPatterns_, size_, shortWords_, call>>

treeVars == <<root_, added>>
engineVars == <<ltwa, shortWords, phase, patterns_, badPatterns_,
                nonprefixPatterns_, dictPatterns_, size_, shortWords_, call>>

(***************************************************************************)
(* Bounds of the model.                                                    *)
(***************************************************************************)
MaxKeyLen == 2
MaxAdds == 7
MaxLtwaLines == 2
MaxTitleTokens == 3
MaxCollationLen == 3
MaxNormalizeLen == 3
MaxPriorityBody == 52

(***************************************************************************)
(* Characters.                                                             *)
(***************************************************************************)
LowerLetters ==
  <<"a","b","c","d","e","f","g","h","i","j","k","l","m",
    "n","o","p","q","r","s","t","u","v","w","x","y","z">>
UpperLetters ==
  <<"A","B","C","D","E","F","G","H","I","J","K","L","M",
    "N","O","P","Q","R","S","T","U","V","W","X","Y","Z">>
Digits == {"0","1","2","3","4","5","6","7","8","9"}

Range(f) == {f[x] : x \in DOMAIN f}
LowerSet == Range(LowerLetters)
UpperSet == Range(UpperLetters)
IsLower(c) == c \in LowerSet
IsUpper(c) == c \in UpperSet
IsLetter(c) == IsLower(c) \/ IsUpper(c)
IsDigit(c) == c \in Digits

IndexIn(seq, c) == CHOOSE k \in DOMAIN seq : seq[k] = c
LowerOf == [c \in UpperSet |-> LowerLetters[IndexIn(UpperLetters, c)]]
UpperOf == [c \in LowerSet |-> UpperLetters[IndexIn(LowerLetters, c)]]

\* UTF-16 code units of the characters the model uses (Array.prototype.sort
\* and the relational operators compare strings by them).
CodeTable ==
  [c \in {"TAB"} |-> 9] @@ [c \in {" "} |-> 32] @@ [c \in {"!"} |-> 33]
  @@ [c \in {"#"} |-> 35] @@ [c \in {"&"} |-> 38] @@ [c \in {"'"} |-> 39]
  @@ [c \in {"("} |-> 40] @@ [c \in {")"} |-> 41] @@ [c \in {"+"} |-> 43]
  @@ [c \in {","} |-> 44] @@ [c \in {"-"} |-> 45] @@ [c \in {"."} |-> 46]
  @@ [c \in {"/"} |-> 47] @@ [c \in Digits |-> 48 + (CHOOSE d \in 0..9 :
        <<"0","1","2","3","4","5","6","7","8","9">>[d + 1] = c)]
  @@ [c \in {":"} |-> 58] @@ [c \in {"?"} |-> 63]
  @@ [c \in UpperSet |-> 64 + IndexIn(UpperLetters, c)]
  @@ [c \in {"]"} |-> 93]
  @@ [c \in LowerSet |-> 96 + IndexIn(LowerLetters, c)]
  @@ [c \in {"u00B7"} |-> 183] @@ [c \in {"u00C9"} |-> 201]
  @@ [c \in {"u00DF"} |-> 223] @@ [c \in {"u00E6"} |-> 230]
  @@ [c \in {"u00E9"} |-> 233] @@ [c \in {"u0301"} |-> 769]
  @@ [c \in {"u2013"} |-> 8211] @@ [c \in {"u2019"} |-> 8217]
  @@ [c \in {"u2026"} |-> 8230]
Code(c) == CodeTable[c]

\* \s of a JavaScript regular expression, among the characters of CodeTable.
IsSpace(c) == c \in {" ", "TAB"}

(***************************************************************************)
(* String helpers (String.prototype).                                      *)
(***************************************************************************)
\* s.substr(i) / s.substring(i): i counts from 0.
Substr(s, i) == IF i >= Len(s) THEN <<>> ELSE SubSeq(s, i + 1, Len(s))
\* s.substring(i, j)
Substring(s, i, j) == IF i >= j THEN <<>> ELSE SubSeq(s, i + 1, j)
\* s.charAt(i) as a string (empty when out of range)
CharAt(s, i) == IF i < Len(s) THEN <<s[i + 1]>> ELSE <<>>

IsPrefixOf(k, s) == Len(k) <= Len(s) /\ SubSeq(s, 1, Len(k)) = k

RECURSIVE Flatten(_)
Flatten(ss) == IF ss = <<>> THEN <<>> ELSE Head(ss) \o Flatten(Tail(ss))

RECURSIVE TrimStart(_)
TrimStart(s) ==
  IF s # <<>> /\ IsSpace(Head(s)) THEN TrimStart(Tail(s)) ELSE s
RECURSIVE TrimEnd(_)
TrimEnd(s) ==
  IF s # <<>> /\ IsSpace(s[Len(s)]) THEN TrimEnd(SubSeq(s, 1, Len(s) - 1))
  ELSE s
\* String.prototype.trim
Trim(s) == TrimEnd(TrimStart(s))

ToLowerChar(c) == IF IsUpper(c) THEN LowerOf[c]
                  ELSE IF c = "u00C9" THEN "u00E9" ELSE c
ToUpperChar(c) == IF IsLower(c) THEN UpperOf[c]
                  ELSE IF c = "u00E9" THEN "u00C9" ELSE c
\* String.prototype.toLowerCase
ToLowerCase(s) == SubSeq([k \in DOMAIN s |-> ToLowerChar(s[k])], 1, Len(s))

\* String.prototype.normalize('NFC'): the only composable pairs over the
\* characters of CodeTable are e/E followed by the combining acute U+0301.
RECURSIVE NFC(_)
NFC(s) ==
  IF Len(s) < 2 THEN s
  ELSE IF s[2] = "u0301" /\ s[1] = "e" THEN <<"u00E9">> \o NFC(Substr(s, 2))
  ELSE IF s[2] = "u0301" /\ s[1] = "E" THEN <<"u00C9">> \o NFC(Substr(s, 2))
  ELSE <<s[1]>> \o NFC(Tail(s))

\* x < y for strings: lexicographic on code units.
RECURSIVE StrLess(_, _)
StrLess(x, y) ==
  IF y = <<>> THEN FALSE
  ELSE IF x = <<>> THEN TRUE
  ELSE IF Code(Head(x)) # Code(Head(y)) THEN Code(Head(x)) < Code(Head(y))
  ELSE StrLess(Tail(x), Tail(y))

(***************************************************************************)
(* PrefixTree.js.  The tree is a function from the path of a node (the     *)
(* characters leading to it from the root) to the node; a node is its      *)
(* bucket (the Array under '-') and its split flag (the key '?');          *)
(* node.has(c) is that the path extended by c is in the domain.            *)
(***************************************************************************)
maxNodeSize == 5

NewNode == [bucket |-> <<>>, split |-> FALSE]
\* new PrefixTree()
NewPrefixTree == (<<>> :> NewNode)

Has(tree, path, c) == Append(path, c) \in DOMAIN tree

\* What `for (const c of s)` iterates: the code points of s.  A string is a
\* sequence of UTF-16 units; the one character outside the BMP is U+1F600,
\* of units D83D DE00, and as a value of c (and as a key of a node) it is
\* written "U1F600".  charAt, substr and length count units.
RECURSIVE CodePoints(_)
CodePoints(s) ==
  IF s = <<>> THEN <<>>
  ELSE IF Len(s) >= 2 /\ s[1] = "uD83D" /\ s[2] = "uDE00"
    THEN <<"U1F600">> \o CodePoints(SubSeq(s, 3, Len(s)))
    ELSE <<Head(s)>> \o CodePoints(Tail(s))

\* The loop of add over the code points of position: go down as far as
\* possible, creating the children of split nodes.  Gives the tree, the
\* path of the node reached and i, the number of code points read.
RECURSIVE AddWalk(_, _, _, _)
AddWalk(tree, path, points, i) ==
  IF i >= Len(points) THEN [tree |-> tree, path |-> path, i |-> i]
  ELSE LET c == points[i + 1] IN
    IF Has(tree, path, c) THEN AddWalk(tree, Append(path, c), points, i + 1)
    ELSE IF tree[path].split
      THEN AddWalk(tree @@ (Append(path, c) :> NewNode),
                   Append(path, c), points, i + 1)
      ELSE [tree |-> tree, path |-> path, i |-> i]

\* splitNode: the pairs of the bucket, in order, go to the children.
RECURSIVE SplitPush(_, _, _)
SplitPush(tree, path, pairs) ==
  IF pairs = <<>> THEN tree
  ELSE LET position == Head(pairs)[1]
           object == Head(pairs)[2]
       IN IF Len(position) = 0 THEN SplitPush(tree, path, Tail(pairs))
          ELSE LET child == Append(path, position[1])
                   t1 == IF child \in DOMAIN tree THEN tree
                         ELSE tree @@ (child :> NewNode)
                   t2 == [t1 EXCEPT ![child].bucket =
                            Append(@, <<Substr(position, 1), object>>)]
               IN SplitPush(t2, path, Tail(pairs))

\* splitNode that forgets the objects ending at the node
splitNode_DropEnding(tree, path) ==
  LET pairs == tree[path].bucket
      pushed == SplitPush(tree, path, pairs)
  IN [pushed EXCEPT ![path] = [bucket |-> <<>>, split |-> TRUE]]

splitNode(tree, path) ==
  LET pairs == tree[path].bucket
      objectsEndingAtNode == SelectSeq(pairs, LAMBDA pr : Len(pr[1]) = 0)
      pushed == SplitPush(tree, path, pairs)
  IN [pushed EXCEPT ![path] =
        [bucket |-> objectsEndingAtNode, split |-> TRUE]]

\* PrefixTree.add
TreeAdd(tree, position, object) ==
  LET w == AddWalk(tree, <<>>, CodePoints(position), 0)
      t1 == [w.tree EXCEPT ![w.path].bucket =
               Append(@, <<Substr(position, w.i), object>>)]
  IN IF Len(t1[w.path].bucket) > maxNodeSize THEN splitNode(t1, w.path)
     ELSE t1

\* The loop of get over the code points of value.
RECURSIVE GetWalk(_, _, _, _)
GetWalk(tree, path, points, i) ==
  IF i >= Len(points) THEN <<>>
  ELSE LET c == points[i + 1] IN
    IF Has(tree, path, c)
    THEN tree[Append(path, c)].bucket
           \o GetWalk(tree, Append(path, c), points, i + 1)
    ELSE <<>>

\* PrefixTree.get
TreeGet(tree, value) ==
  LET result == tree[<<>>].bucket
                  \o GetWalk(tree, <<>>, CodePoints(value), 0)
  IN SubSeq([k \in DOMAIN result |-> result[k][2]], 1, Len(result))


(***************************************************************************)
(* collation.js                                                            *)
(***************************************************************************)
\* boundariesRegex = /[-\s–—_.,:;!|=+*\\/"()&#%@$?]/
\* (of the characters of CodeTable; the apostrophe is not in the class)
BoundaryChars ==
  {" ", "TAB", "-", "u2013", ".", ",", ":", "!", "+", "/", "(", ")", "&", "#",
   "?"}
boundariesRegex(c) == c \in BoundaryChars

\* What normalize makes of one character: the fixed rewrites, then NFKD
\* with the combining marks U+0300-U+036F removed.
NormalizeChar(c) ==
  CASE c = "u00DF" -> <<"s", "s">>
    [] c = "u00E6" -> <<"a", "e">>
    [] c = "u00B7" -> <<>>
    [] c = "u00E9" -> <<"e">>
    [] c = "u00C9" -> <<"E">>
    [] c = "u0301" -> <<>>
    [] c = "u2026" -> <<".", ".", ".">>
    [] OTHER -> <<c>>

normalize(s) == Flatten([k \in DOMAIN s |-> NormalizeChar(s[k])])

\* .replace(/\s+/gu, ' ') that leaves the string as it is
CollapseSpaces_Keep(s) == s

\* .replace(/\s+/gu, ' ')
RECURSIVE CollapseSpaces(_)
CollapseSpaces(s) ==
  IF s = <<>> THEN <<>>
  ELSE IF IsSpace(Head(s))
    THEN <<" ">> \o CollapseSpaces(TrimStart(s))
    ELSE <<Head(s)>> \o CollapseSpaces(Tail(s))

\* .replace(/kh/g, ''): leftmost matches, not rescanned
RECURSIVE RemoveKh(_)
RemoveKh(s) ==
  IF s = <<>> THEN <<>>
  ELSE IF Len(s) >= 2 /\ s[1] = "k" /\ s[2] = "h" THEN RemoveKh(Substr(s, 2))
  ELSE <<Head(s)>> \o RemoveKh(Tail(s))

\* .replace(new RegExp(boundariesRegex, 'g'), ' ')
ReplaceBoundaries(s) ==
  SubSeq([k \in DOMAIN s |-> IF boundariesRegex(s[k]) THEN " " ELSE s[k]],
         1, Len(s))
\* .replace(/^\s/gu, '') and .replace(/\s$/gu, '')
RemoveFirstSpace(s) == IF s # <<>> /\ IsSpace(Head(s)) THEN Tail(s) ELSE s
RemoveLastSpace(s) ==
  IF s # <<>> /\ IsSpace(s[Len(s)]) THEN SubSeq(s, 1, Len(s) - 1) ELSE s
\* .replace(/[^a-z\ ]/g, '') in the place of .replace(/[^a-z\ ]/g, ' ')
ReplaceNonLetters_Drop(s) == SelectSeq(s, LAMBDA c : IsLower(c) \/ c = " ")

\* .replace(/[^a-z\ ]/g, ' ')
ReplaceNonLetters(s) ==
  SubSeq([k \in DOMAIN s |-> IF IsLower(s[k]) \/ s[k] = " " THEN s[k] ELSE " "],
         1, Len(s))
\* .replace(/h/g, '') that leaves the string as it is
RemoveH_Keep(s) == s

\* .replace(/h/g, '')
RemoveH(s) == SelectSeq(s, LAMBDA c : c # "h")

promiscuouslyNormalize(s) ==
  RemoveH(RemoveKh(ReplaceNonLetters(RemoveLastSpace(RemoveFirstSpace(
    CollapseSpaces(ReplaceBoundaries(ToLowerCase(normalize(s)))))))))

cEquiv(s, t) == ToLowerCase(normalize(s)) = ToLowerCase(normalize(t))

\* getCollatingMatch: ss, tt are Array.from(s), Array.from(t); i, j count
\* from 0; r0, r1 are result[0], result[1].  ok = FALSE is `return false`.
RECURSIVE CollatingLoop(_, _, _, _, _, _)
CollatingLoop(ss, tt, i, j, r0, r1) ==
  IF j >= Len(tt) THEN [ok |-> TRUE, r0 |-> r0, r1 |-> r1]
  ELSE
    LET si == CharAt(ss, i)
        si1 == CharAt(ss, i + 1)
        tj == CharAt(tt, j)
        tj1 == CharAt(tt, j + 1)
    IN
    IF i >= Len(ss) THEN
      IF cEquiv(<<>>, tj)
      THEN CollatingLoop(ss, tt, i, j + 1, Append(r0, <<>>), Append(r1, tj))
      ELSE [ok |-> FALSE, r0 |-> <<>>, r1 |-> <<>>]
    ELSE IF i + 1 < Len(ss) /\ j + 1 < Len(tt) /\ cEquiv(si \o si1, tj \o tj1)
      THEN CollatingLoop(ss, tt, i + 1, j + 1, Append(r0, si), Append(r1, tj))
    ELSE IF j + 1 < Len(tt) /\ cEquiv(si, tj \o tj1) /\ ~cEquiv(tj1, <<>>) THEN
      IF cEquiv(<<>>, tj)
      THEN CollatingLoop(ss, tt, i, j + 1, Append(r0, <<>>), Append(r1, tj))
      ELSE CollatingLoop(ss, tt, i + 1, j + 2,
                         Append(r0, si), Append(r1, tj \o tj1))
    ELSE IF i + 1 < Len(ss) /\ cEquiv(si \o si1, tj) /\ ~cEquiv(si1, <<>>) THEN
      IF cEquiv(si, <<>>)
      THEN CollatingLoop(ss, tt, i + 1, j, Append(r0, si), Append(r1, <<>>))
      ELSE CollatingLoop(ss, tt, i + 2, j + 1,
                         Append(r0, si \o si1), Append(r1, tj))
    ELSE IF cEquiv(si, tj)
      THEN CollatingLoop(ss, tt, i + 1, j + 1, Append(r0, si), Append(r1, tj))
    ELSE IF cEquiv(si, <<>>)
      THEN CollatingLoop(ss, tt, i + 1, j, Append(r0, si), Append(r1, <<>>))
    ELSE [ok |-> FALSE, r0 |-> <<>>, r1 |-> <<>>]

\* getCollatingMatch that pushes the characters of t to result[0] too
getCollatingMatch_PatternChars(s, t) ==
  LET r == CollatingLoop(s, t, 0, 0, <<>>, <<>>) IN [r EXCEPT !.r0 = r.r1]

getCollatingMatch(s, t) == CollatingLoop(s, t, 0, 0, <<>>, <<>>)

(***************************************************************************)
(* AbbrevIso.js: LTWAPattern.  An LTWAPattern object is a record; its      *)
(* identity (what === compares) is the field id, its position in           *)
(* patterns_.                                                              *)
(***************************************************************************)
\* String.prototype.split on a one-character separator
RECURSIVE SplitFrom(_, _, _)
SplitFrom(s, sep, cur) ==
  IF s = <<>> THEN <<cur>>
  ELSE IF Head(s) = sep THEN <<cur>> \o SplitFrom(Tail(s), sep, <<>>)
  ELSE SplitFrom(Tail(s), sep, Append(cur, Head(s)))
Split(s, sep) == SplitFrom(s, sep, <<>>)

\* p.replace(/\(.*\)/, ''): from the first '(' that has a ')' after it to the
\* last ')'
RemoveComment(p) ==
  LET closes == {k \in DOMAIN p : p[k] = ")"}
      opens == {k \in DOMAIN p : p[k] = "(" /\ \E m \in closes : m > k}
  IN IF opens = {} THEN p
     ELSE LET o == CHOOSE k \in opens : \A m \in opens : k <= m
              c == CHOOSE k \in closes : \A m \in closes : m <= k
          IN SubSeq(p, 1, o - 1) \o SubSeq(p, c + 1, Len(p))

NotAbbreviated ==
  { <<"n", ".", "a", ".">>, <<"n", ".", " ", "a", ".">>, <<"n", ".", "a">> }

\* new LTWAPattern(line) that accepts a pattern of two characters
LTWAPattern_TwoCharacters(line, id) ==
  LET a == Split(line, "TAB")
      p == Trim(RemoveComment(Trim(NFC(a[1]))))
      r == Trim(NFC(a[2]))
      langs == Split(a[3], ",")
  IN IF Len(a) # 3 THEN [err |-> "fields", line |-> line]
     ELSE IF Len(p) < 2 THEN [err |-> "short", line |-> line]
     ELSE [err |-> "none", id |-> id, line |-> line, pattern |-> p,
           replacement |-> IF r \in NotAbbreviated THEN <<"u2013">> ELSE r,
           languages |-> [k \in DOMAIN langs |-> Trim(langs[k])],
           startDash |-> CharAt(p, 0) = <<"-">>,
           endDash |-> CharAt(p, Len(p) - 1) = <<"-">>]

\* new LTWAPattern(line); err is the thrown Error
LTWAPattern(line, id) ==
  LET a == Split(line, "TAB")
      p == Trim(RemoveComment(Trim(NFC(a[1]))))
      r == Trim(NFC(a[2]))
      langs == Split(a[3], ",")
  IN IF Len(a) # 3 THEN [err |-> "fields", line |-> line]
     ELSE IF Len(p) < 3 THEN [err |-> "short", line |-> line]
     ELSE [err |-> "none", id |-> id, line |-> line, pattern |-> p,
           replacement |-> IF r \in NotAbbreviated THEN <<"u2013">> ELSE r,
           languages |-> [k \in DOMAIN langs |-> Trim(langs[k])],
           startDash |-> CharAt(p, 0) = <<"-">>,
           endDash |-> CharAt(p, Len(p) - 1) = <<"-">>]

\* LTWAPattern.toString, without the constant prefix '[object LTWAPattern: '
PatternToString(pat) == Append(pat.line, "]")

\* p.replace(/^-/, '') and p.replace(/-$/, '')
StripStartDash(p) == IF p # <<>> /\ Head(p) = "-" THEN Tail(p) ELSE p
StripEndDash(p) ==
  IF p # <<>> /\ p[Len(p)] = "-" THEN SubSeq(p, 1, Len(p) - 1) ELSE p

(***************************************************************************)
(* AbbrevIso: construction.  An engine is the record of the fields         *)
(* patterns, badPatterns_, nonprefixPatterns_, dictPatterns_, size_.       *)
(***************************************************************************)
EmptyEngine ==
  [patterns |-> <<>>, badPatterns_ |-> <<>>,
   nonprefixPatterns_ |-> NewPrefixTree, dictPatterns_ |-> NewPrefixTree,
   size_ |-> 0]

\* addPattern that adds the patterns with a starting dash to dictPatterns_
\* as well
addPattern_AlsoDict(e, pattern) ==
  LET p == normalize(StripEndDash(StripStartDash(pattern.pattern)))
      bad == ~(p # <<>> /\ IsLetter(Head(p)))
      key == promiscuouslyNormalize(p)
  IN [patterns |-> Append(e.patterns, pattern),
      badPatterns_ |-> IF bad THEN Append(e.badPatterns_, pattern.id)
                       ELSE e.badPatterns_,
      nonprefixPatterns_ |->
        IF pattern.startDash THEN TreeAdd(e.nonprefixPatterns_, key, pattern.id)
        ELSE e.nonprefixPatterns_,
      dictPatterns_ |-> TreeAdd(e.dictPatterns_, key, pattern.id),
      size_ |-> e.size_ + 1]

addPattern(e, pattern) ==
  LET p == normalize(StripEndDash(StripStartDash(pattern.pattern)))
      bad == ~(p # <<>> /\ IsLetter(Head(p)))
      key == promiscuouslyNormalize(p)
  IN [patterns |-> Append(e.patterns, pattern),
      badPatterns_ |-> IF bad THEN Append(e.badPatterns_, pattern.id)
                       ELSE e.badPatterns_,
      nonprefixPatterns_ |->
        IF pattern.startDash THEN TreeAdd(e.nonprefixPatterns_, key, pattern.id)
        ELSE e.nonprefixPatterns_,
      dictPatterns_ |->
        IF pattern.startDash THEN e.dictPatterns_
        ELSE TreeAdd(e.dictPatterns_, key, pattern.id),
      size_ |-> e.size_ + 1]

\* The loop of the constructor over the lines; firstLine is the flag.
\* Gives the engine, or the Error thrown by new LTWAPattern.
RECURSIVE ConstructorLoop(_, _, _)
ConstructorLoop(e, lines, firstLine) ==
  IF lines = <<>> THEN [err |-> "none", engine |-> e]
  ELSE IF firstLine THEN ConstructorLoop(e, Tail(lines), FALSE)
  ELSE IF Len(Trim(Head(lines))) = 0 THEN ConstructorLoop(e, Tail(lines), FALSE)
  ELSE LET pat == LTWAPattern(Head(lines), Len(e.patterns) + 1)
       IN IF pat.err # "none" THEN [err |-> pat.err, line |-> pat.line]
          ELSE ConstructorLoop(addPattern(e, pat), Tail(lines), FALSE)

\* shortWords.map((s) => s.trim()).filter((s) => s.length > 0)
TrimShortWords(words) ==
  SelectSeq([k \in DOMAIN words |-> Trim(words[k])], LAMBDA w : Len(w) > 0)

(***************************************************************************)
(* AbbrevIso: the queries.                                                 *)
(***************************************************************************)
\* Array.prototype.sort is stable, and the comparisons it is used with
\* compare a key of the elements (the string of toString, or a number):
\* key[k] is the key of arr[k], as a number.  An element goes after the
\* elements of smaller key and after those of equal key that stood before
\* it.
StableSort(arr, key) ==
  LET rank == {<<k, 1 + Cardinality({m \in DOMAIN arr :
                       \/ key[m] < key[k]
                       \/ (key[m] = key[k] /\ m < k)})>> :
               k \in DOMAIN arr}
      at == {<<r[2], arr[r[1]]>> : r \in rank}
  IN SubSeq([pos \in DOMAIN arr |-> (CHOOSE x \in at : x[1] = pos)[2]],
            1, Len(arr))

\* result.filter((x, i, res) => !i || x !== res[i-1])
FilterAdjacent(res) ==
  LET keep == {k \in DOMAIN res : k = 1 \/ res[k] # res[k - 1]}
      F[k \in 0..Len(res)] ==
        IF k = 0 THEN <<>>
        ELSE IF k \in keep THEN Append(F[k - 1], res[k]) ELSE F[k - 1]
  IN F[Len(res)]

\* The loop of getPotentialPatterns over the positions of s: what is
\* concatenated to result, in order.
RECURSIVE PotentialLoop(_, _, _, _, _)
PotentialLoop(e, s, pretendDash, i, isNewWord) ==
  IF i >= Len(s) THEN <<>>
  ELSE IF ~IsLetter(s[i + 1]) THEN PotentialLoop(e, s, pretendDash, i + 1, TRUE)
  ELSE (IF isNewWord \/ pretendDash
        THEN TreeGet(e.dictPatterns_, Substr(s, i)) ELSE <<>>)
       \o TreeGet(e.nonprefixPatterns_, Substr(s, i))
       \o PotentialLoop(e, s, pretendDash, i + 1, FALSE)

\* getPotentialPatterns.  result is the same Array object as badPatterns_
\* until the first concat, which happens at the first letter of s; sort()
\* sorts the Array it is called on in place.  Gives the returned Array and
\* badPatterns_ as the call leaves it.
getPotentialPatterns(e, title, pretendDash) ==
  LET \* the comparison of sort(): by toString; the place of the string of
      \* every pattern among the strings of the patterns
      place == {<<x, Cardinality({y \in DOMAIN e.patterns :
                       StrLess(PatternToString(e.patterns[y]),
                               PatternToString(e.patterns[x]))})>> :
                x \in DOMAIN e.patterns}
      key(result) == SubSeq([k \in DOMAIN result |->
                               (CHOOSE xp \in place : xp[1] = result[k])[2]],
                            1, Len(result))
      sort(result) == StableSort(result, key(result))
      filter(sorted, aliased) ==
        [result |-> FilterAdjacent(sorted),
         badPatterns_ |-> IF aliased THEN sorted ELSE e.badPatterns_]
      loop(s) ==
        filter(sort(e.badPatterns_ \o PotentialLoop(e, s, pretendDash, 0, TRUE)),
               \A k \in DOMAIN s : ~IsLetter(s[k]))
  IN loop(promiscuouslyNormalize(title))

Includes(list, x) == \E k \in DOMAIN list : list[k] = x

\* A languages argument: given = FALSE is `undefined`.
NoLanguages == [given |-> FALSE, list |-> <<>>]
Languages(list) == [given |-> TRUE, list |-> list]

\* The language test with every() in the place of some()
LanguagesExclude_Every(pattern, languages) ==
  LET langs == IF languages.given THEN languages.list ELSE << <<"*">> >>
  IN /\ ~Includes(langs, <<"*">>)
     /\ ~\A k \in DOMAIN pattern.languages :
            Includes(langs, pattern.languages[k])

\* The language test of getPatternMatches (the default parameter ['*']
\* replaces undefined): TRUE when the pattern is to be skipped.
LanguagesExclude(pattern, languages) ==
  LET langs == IF languages.given THEN languages.list ELSE << <<"*">> >>
  IN /\ ~Includes(langs, <<"*">>)
     /\ ~\E k \in DOMAIN pattern.languages :
            Includes(langs, pattern.languages[k])

\* The inner while of the abbreviation loop: omit characters of the match
\* until one that the replacement has.  err is the TypeError of reading
\* r[1][ii] or r[0][ii] past the end.
RECURSIVE SkipLoop(_, _, _, _, _, _)
SkipLoop(r0, r1, rep, j, ii, iend) ==
  IF ii >= Len(r1) THEN [err |-> TRUE, ii |-> ii, iend |-> iend]
  ELSE
    LET c1 == cEquiv(r1[ii + 1], <<rep[j + 1]>>)
        c2 == j + 1 < Len(rep) /\ cEquiv(r1[ii + 1], <<rep[j + 1], rep[j + 2]>>)
    IN IF ~c1 /\ ~c2
       THEN IF ii + 1 >= Len(r0) THEN [err |-> TRUE, ii |-> ii, iend |-> iend]
            ELSE SkipLoop(r0, r1, rep, j, ii + 1, iend + Len(r0[ii + 2]))
       ELSE [err |-> FALSE, ii |-> ii, iend |-> iend]

\* for (let j = 0; j < replacement.length; j++) of getPatternMatches
RECURSIVE AbbrLoop(_, _, _, _, _, _, _)
AbbrLoop(r0, r1, rep, j, ii, iend, abbr) ==
  IF j >= Len(rep)
  THEN [err |-> FALSE, ii |-> ii, iend |-> iend, abbr |-> abbr]
  ELSE IF rep[j + 1] = "."
  THEN AbbrLoop(r0, r1, rep, j + 1, ii, iend, Append(abbr, "."))
  ELSE
    LET skipped(sk) ==
          IF sk.err
          THEN [err |-> TRUE, ii |-> ii, iend |-> iend, abbr |-> abbr]
          ELSE
            LET j2 == IF ~cEquiv(r1[sk.ii + 1], <<rep[j + 1]>>) THEN j + 1
                      ELSE j
                ii2 == sk.ii + 1
                iend2 == IF ii2 < Len(r0) THEN sk.iend + Len(r0[ii2 + 1])
                         ELSE sk.iend
            IN AbbrLoop(r0, r1, rep, j2 + 1, ii2, iend2,
                        abbr \o r0[sk.ii + 1])
    IN skipped(SkipLoop(r0, r1, rep, j, ii, iend))

\* for (ii++; ii < r[0].length; ii++) iend += r[0][ii].length
RECURSIVE RestLength(_, _)
RestLength(r0, ii) ==
  IF ii >= Len(r0) THEN 0 ELSE Len(r0[ii + 1]) + RestLength(r0, ii + 1)

\* while (iend < value.length && !boundariesRegex.test(value[iend])) iend++
RECURSIVE ToBoundary(_, _)
ToBoundary(value, iend) ==
  IF iend < Len(value) /\ ~boundariesRegex(value[iend + 1])
  THEN ToBoundary(value, iend + 1) ELSE iend

IsFlection(c) == c \in {"i", "a", "e", "s", "n", "'", "u2019"}
RECURSIVE FlectionRun(_)
FlectionRun(s) ==
  IF s # <<>> /\ IsFlection(Head(s)) THEN 1 + FlectionRun(Tail(s)) ELSE 0

\* The ending test without ($|boundary)
EndingMatch_NoBoundary(rest) ==
  LET n == FlectionRun(rest) IN
  [matched |-> TRUE, appendix |-> SubSeq(rest, 1, IF n <= 3 THEN n ELSE 3)]

\* value.substr(iend).match(/^([iaesn'’]{0,3})($|boundary)/u): no flection
\* character is a boundary, so the only count that can match is the whole
\* run.  Gives [matched, appendix].
EndingMatch(rest) ==
  LET n == FlectionRun(rest) IN
  IF n <= 3 /\ (n = Len(rest) \/ boundariesRegex(rest[n + 1]))
  THEN [matched |-> TRUE, appendix |-> SubSeq(rest, 1, n)]
  ELSE [matched |-> FALSE, appendix |-> <<>>]

\* The word-start test that lets every position through
WordStartMissing_Never(pattern, pretendDash, isPreviousCharBoundary) == FALSE

\* if (!pattern.startDash && !pretendDash && !isPreviousCharBoundary)
WordStartMissing(pattern, pretendDash, isPreviousCharBoundary) ==
  ~pattern.startDash /\ ~pretendDash /\ ~isPreviousCharBoundary

\* The abbreviation of a match without the case of 'not abbreviated'
ReportedAbbr_AsComputed(value, rep, i, iend, abbr) == abbr

\* if (replacement == '') abbr = value.substring(i, iend)
ReportedAbbr(value, rep, i, iend, abbr) ==
  IF rep = <<>> THEN Substring(value, i, iend) ELSE abbr

\* while (i < value.length) of getPatternMatches
RECURSIVE MatchLoop(_, _, _, _, _, _, _, _)
MatchLoop(value, pattern, p, rep, pretendDash, i, isPreviousCharBoundary, result) ==
  IF i >= Len(value) THEN [err |-> FALSE, matches |-> result]
  ELSE
    LET dash == pattern.endDash \/ pretendDash
        \* the end of the loop body, with result as it is then
        advance(res) ==
          MatchLoop(value, pattern, p, rep, pretendDash, i + 1,
                    boundariesRegex(value[i + 1]), res)
        \* result.push([i, iend, abbr, pattern, appendix])
        push(iend, abbr, appendix) ==
          advance(Append(result,
                    [i |-> i, iend |-> iend,
                     abbr |-> ReportedAbbr(value, rep, i, iend, abbr),
                     pattern |-> pattern.id, appendix |-> appendix]))
        \* the end of the match: up to a boundary, or a flection
        end(iend1, abbr, ending) ==
          IF dash THEN push(ToBoundary(value, iend1), abbr, <<>>)
          ELSE IF ~ending.matched THEN advance(result)
          ELSE push(iend1 + Len(ending.appendix), abbr, ending.appendix)
        abbreviated(r0, ab) ==
          IF ab.err THEN [err |-> TRUE, matches |-> result]
          ELSE end(ab.iend + RestLength(r0, ab.ii + 1), ab.abbr,
                   EndingMatch(Substr(value,
                                      ab.iend + RestLength(r0, ab.ii + 1))))
        matched(r) ==
          IF ~r.ok THEN advance(result)
          ELSE abbreviated(r.r0, AbbrLoop(r.r0, r.r1, rep, 0, 0,
                                          i + Len(r.r0[1]), <<>>))
    IN IF WordStartMissing(pattern, pretendDash, isPreviousCharBoundary)
       THEN advance(result)
       ELSE matched(getCollatingMatch(Substr(value, i), p))

\* getPatternMatches; err is a thrown TypeError
getPatternMatches(value, pattern, languages, pretendDash) ==
  IF LanguagesExclude(pattern, languages)
  THEN [err |-> FALSE, matches |-> <<>>]
  ELSE
    LET r1 == IF pattern.replacement = <<"u2013">> THEN <<>>
              ELSE pattern.replacement
        strip == pattern.startDash \/ pretendDash
        p1 == IF strip THEN StripStartDash(pattern.pattern)
              ELSE pattern.pattern
        rep == IF strip THEN StripStartDash(r1) ELSE r1
        p == IF pattern.endDash \/ pretendDash THEN StripEndDash(p1) ELSE p1
    IN MatchLoop(value, pattern, p, rep, pretendDash, 0, TRUE, <<>>)

\* matches = matches.concat(this.getPatternMatches(...)) for the patterns
RECURSIVE CollectMatches(_, _, _, _, _)
CollectMatches(e, value, patterns, languages, pretendDash) ==
  IF patterns = <<>> THEN [err |-> FALSE, matches |-> <<>>]
  ELSE
    LET concat(m, rest) ==
          IF m.err THEN [err |-> TRUE, matches |-> <<>>]
          ELSE IF rest.err THEN rest
          ELSE [err |-> FALSE, matches |-> m.matches \o rest.matches]
    IN concat(getPatternMatches(value, e.patterns[Head(patterns)], languages,
                                pretendDash),
              CollectMatches(e, value, Tail(patterns), languages, pretendDash))

\* getBeginning of makeAbbreviation's sort, which puts later matches first
getBeginning_Descending(m) == 0 - m.i

\* const getBeginning = ([i, _iend, _abbr, _pattern, _appendix]) => i
getBeginning(m) == m.i

\* getMatchingPatterns with patterns undefined.  Gives the returned Array
\* (or err), the matches it was made from, and badPatterns_ as the call to
\* getPotentialPatterns leaves it.
getMatchingPatterns(e, title, languages, pretendDash) ==
  LET map(err, sorted, bad) ==
        [err |-> err,
         result |-> SubSeq([k \in DOMAIN sorted |-> sorted[k].pattern],
                           1, Len(sorted)),
         matches |-> sorted,
         badPatterns_ |-> bad]
      sort(matches) ==
        StableSort(matches,
                   SubSeq([k \in DOMAIN matches |-> getBeginning(matches[k])],
                          1, Len(matches)))
      collected(c, bad) == map(c.err, sort(c.matches), bad)
      collect(pot) ==
        collected(CollectMatches(e, Trim(NFC(title)), pot.result, languages,
                                 pretendDash),
                  pot.badPatterns_)
  IN collect(getPotentialPatterns(e, title, pretendDash))

(***************************************************************************)
(* Regular expressions of makeAbbreviation.  s.replace(/re/g, ...) tries   *)
(* the expression at every position from the left and goes on after a      *)
(* match; ml[i] is the length of the match that starts at position i (0    *)
(* when there is none: no expression here matches the empty string) and    *)
(* repl[i] is what replaces it.                                            *)
(***************************************************************************)
RECURSIVE ReplaceScan(_, _, _, _)
ReplaceScan(s, ml, repl, i) ==
  IF i >= Len(s) THEN <<>>
  ELSE IF ml[i] > 0 THEN repl[i] \o ReplaceScan(s, ml, repl, i + ml[i])
  ELSE <<s[i + 1]>> \o ReplaceScan(s, ml, repl, i + 1)

Positions(s) == 0..(Len(s) - 1)

\* The character at position i, or "EOS" (which is in no class) after the end
At(s, i) == IF i < Len(s) THEN s[i + 1] ELSE "EOS"
\* s has the word w at position i
WordAt(s, i, w) == i + Len(w) <= Len(s) /\ SubSeq(s, i + 1, i + Len(w)) = w

\* The match with its last character (a comma) made a period: '$1.'
CommaToPeriod(s, ml) ==
  IF \A i \in Positions(s) : ml[i] = 0 THEN s ELSE
  LET repl == [i \in Positions(s) |->
                 IF ml[i] > 0
                 THEN Append(SubSeq(s, i + 1, i + ml[i] - 1), ".") ELSE <<>>]
  IN ReplaceScan(s, ml, repl, 0)

\* /\.\.\./ug -> ''
RemoveEllipsis(s) ==
  IF "." \notin Range(s) THEN s ELSE
  LET ml == [i \in Positions(s) |->
               IF WordAt(s, i, <<".", ".", ".">>) THEN 3 ELSE 0]
  IN ReplaceScan(s, ml, [i \in Positions(s) |-> <<>>], 0)

\* /((^|[A-Z,\.&\-\\\/])\s?[A-Z]),/ug -> '$1.'
AcronymClass(c) == IsUpper(c) \/ c \in {",", ".", "&", "-", "/"}
\* \s?[A-Z], at position k
AcronymTail(s, k) ==
  IF IsSpace(At(s, k)) /\ IsUpper(At(s, k + 1)) /\ At(s, k + 2) = "," THEN 3
  ELSE IF IsUpper(At(s, k)) /\ At(s, k + 1) = "," THEN 2
  ELSE 0
AcronymLen(s, i) ==
  IF i = 0 /\ AcronymTail(s, 0) > 0 THEN AcronymTail(s, 0)
  ELSE IF AcronymClass(At(s, i)) /\ AcronymTail(s, i + 1) > 0
    THEN 1 + AcronymTail(s, i + 1)
  ELSE 0
RestoreAcronyms(s) ==
  CommaToPeriod(s, [i \in Positions(s) |-> AcronymLen(s, i)])

\* /(\s[A-Z]),/ug -> '$1.'
RestoreInitials(s) ==
  CommaToPeriod(s, [i \in Positions(s) |->
    IF IsSpace(At(s, i)) /\ IsUpper(At(s, i + 1)) /\ At(s, i + 2) = ","
    THEN 3 ELSE 0])

\* /([A-Za-z]),([A-Za-z])/ug -> '$1.$2'
RestoreInsideWords(s) ==
  LET ml == [i \in Positions(s) |->
               IF IsLetter(At(s, i)) /\ At(s, i + 1) = ","
                  /\ IsLetter(At(s, i + 2)) THEN 3 ELSE 0]
      repl == [i \in Positions(s) |->
                 IF ml[i] > 0 THEN <<s[i + 1], ".", s[i + 3]>> ELSE <<>>]
  IN ReplaceScan(s, ml, repl, 0)

\* /([\s\-:,&#()\\\/][0-9]{1,3}),/ug -> '$1.'
OrdinalClass(c) ==
  IsSpace(c) \/ c \in {"-", ":", ",", "&", "#", "(", ")", "/"}
RECURSIVE DigitRun(_, _)
DigitRun(s, k) == IF IsDigit(At(s, k)) THEN 1 + DigitRun(s, k + 1) ELSE 0
RestoreOrdinals(s) ==
  CommaToPeriod(s, [i \in Positions(s) |->
    LET n == DigitRun(s, i + 1) IN
    IF OrdinalClass(At(s, i)) /\ n >= 1 /\ n <= 3 /\ At(s, i + 1 + n) = ","
    THEN n + 2 ELSE 0])

\* /((^|\s)(St|Mr|Ms|Mrs|Mx|Dr|Prof|vs)),/ug -> '$1.'
Honorifics ==
  << <<"S","t">>, <<"M","r">>, <<"M","s">>, <<"M","r","s">>, <<"M","x">>,
     <<"D","r">>, <<"P","r","o","f">>, <<"v","s">> >>
\* length of (w1|w2|...) followed by the character `next` at position k
WordThenLen(s, k, words, next) ==
  LET ok == {n \in DOMAIN words :
               WordAt(s, k, words[n]) /\ At(s, k + Len(words[n])) \in next}
  IN IF ok = {} THEN 0
     ELSE Len(words[CHOOSE n \in ok : \A m \in ok : n <= m]) + 1
RestoreHonorifics(s) ==
  CommaToPeriod(s, [i \in Positions(s) |->
    IF i = 0 /\ WordThenLen(s, 0, Honorifics, {","}) > 0
    THEN WordThenLen(s, 0, Honorifics, {","})
    ELSE IF IsSpace(At(s, i)) /\ WordThenLen(s, i + 1, Honorifics, {","}) > 0
    THEN 1 + WordThenLen(s, i + 1, Honorifics, {","})
    ELSE 0])

\* /^J,/ug -> 'J.'
RestoreLeadingJ(s) ==
  IF WordAt(s, 0, <<"J", ",">>) THEN <<"J", ".">> \o Substr(s, 2) ELSE s

\* /([^A-Z0-9])[&+]([^A-Z0-9])/ug -> '$1$2'
NotCapitalOrDigit(c) == c # "EOS" /\ ~IsUpper(c) /\ ~IsDigit(c)
RemoveAnd(s) ==
  IF Range(s) \cap {"&", "+"} = {} THEN s ELSE
  LET ml == [i \in Positions(s) |->
               IF NotCapitalOrDigit(At(s, i)) /\ At(s, i + 1) \in {"&", "+"}
                  /\ NotCapitalOrDigit(At(s, i + 2)) THEN 3 ELSE 0]
      repl == [i \in Positions(s) |->
                 IF ml[i] > 0 THEN <<s[i + 1], s[i + 3]>> ELSE <<>>]
  IN ReplaceScan(s, ml, repl, 0)

\* Step 1 of makeAbbreviation: lines 354-379
\* .replace(/\./ug, ',')
PeriodsToCommas(s) ==
  SubSeq([k \in DOMAIN s |-> IF s[k] = "." THEN "," ELSE s[k]], 1, Len(s))
\* The six expressions that give the period back
\* (none of them matches a string without a comma)
RestorePeriods(s) ==
  IF "," \notin Range(s) THEN s
  ELSE RestoreLeadingJ(RestoreHonorifics(RestoreOrdinals(RestoreInsideWords(
         RestoreInitials(RestoreAcronyms(RestoreAcronyms(s)))))))
NormalizePunctuation(value) ==
  RemoveAnd(RestorePeriods(PeriodsToCommas(
    SelectSeq(SelectSeq(RemoveEllipsis(Trim(NFC(value))),
                        LAMBDA c : c # "u2026"),
              LAMBDA c : c # ","))))

\* '(Series|Serie|Ser|Part|Section|Sect|Sec|Série)[,.]?\s*
\*  ([A-Z]|[0-9IVXivx]+)(boundary|$)' -> '$2$3'
Separators ==
  << <<"S","e","r","i","e","s">>, <<"S","e","r","i","e">>, <<"S","e","r">>,
     <<"P","a","r","t">>, <<"S","e","c","t","i","o","n">>,
     <<"S","e","c","t">>, <<"S","e","c">>, <<"S","u00E9","r","i","e">> >>
IsEnumeration(c) == IsDigit(c) \/ c \in {"I", "V", "X", "i", "v", "x"}
RECURSIVE EnumerationRun(_, _)
EnumerationRun(s, k) ==
  IF IsEnumeration(At(s, k)) THEN 1 + EnumerationRun(s, k + 1) ELSE 0
RECURSIVE SpaceRun(_, _)
SpaceRun(s, k) == IF IsSpace(At(s, k)) THEN 1 + SpaceRun(s, k + 1) ELSE 0
\* (boundary|$) at position k: 1 or 0 characters, or -1 when it fails
BoundaryOrEnd(s, k) ==
  IF k < Len(s) /\ boundariesRegex(s[k + 1]) THEN 1
  ELSE IF k >= Len(s) THEN 0 ELSE -1
\* What follows the separator word, from position k: the optional [,.] and
\* the spaces are taken greedily (giving one back leaves a character that
\* the enumeration cannot match), [A-Z] is tried before the run
\* [0-9IVXivx]+ (which cannot be shortened: the next character would be one
\* of its own).  Gives [from, to) of $2$3, or from = -1.
SeparatorTail(s, k) ==
  LET k2 == IF At(s, k) \in {",", "."} THEN k + 1 ELSE k
      k3 == k2 + SpaceRun(s, k2)
      q == EnumerationRun(s, k3)
  IN IF IsUpper(At(s, k3)) /\ BoundaryOrEnd(s, k3 + 1) >= 0
     THEN [from |-> k3, to |-> k3 + 1 + BoundaryOrEnd(s, k3 + 1)]
     ELSE IF q >= 1 /\ BoundaryOrEnd(s, k3 + q) >= 0
     THEN [from |-> k3, to |-> k3 + q + BoundaryOrEnd(s, k3 + q)]
     ELSE [from |-> -1, to |-> -1]
SeparatorMatch(s, i) ==
  LET ok == {n \in DOMAIN Separators :
               /\ WordAt(s, i, Separators[n])
               /\ SeparatorTail(s, i + Len(Separators[n])).from >= 0}
  IN IF ok = {} THEN [from |-> -1, to |-> -1]
     ELSE SeparatorTail(s,
            i + Len(Separators[CHOOSE n \in ok : \A m \in ok : n <= m]))
\* The separators left in the title
RemoveSeparators_Keep(s) == s

RemoveSeparators(s) ==
  IF Range(s) \cap {"S", "P"} = {} THEN s ELSE
  LET ml == [i \in Positions(s) |->
               IF SeparatorMatch(s, i).from >= 0
               THEN SeparatorMatch(s, i).to - i ELSE 0]
      repl == [i \in Positions(s) |->
                 IF ml[i] > 0
                 THEN Substring(s, SeparatorMatch(s, i).from,
                                SeparatorMatch(s, i).to)
                 ELSE <<>>]
  IN ReplaceScan(s, ml, repl, 0)

\* const boundariesRegex = /[-\s–—_.,:;!|=*\\/"()#%@$]/ of makeAbbreviation
PlannerBoundaryChars ==
  {" ", "TAB", "-", "u2013", ".", ",", ":", "!", "/", "(", ")", "#"}
plannerBoundariesRegex(c) == c \in PlannerBoundaryChars

\* s.replace(new RegExp(before + word + '\\s', 'gu'), '$1'), where before
\* is '(^|boundary)' (atStart) or '(boundary)'
RemoveWord(s, word, atStart) ==
  LET ml == [i \in Positions(s) |->
               IF atStart /\ i = 0 /\ WordAt(s, 0, word)
                  /\ IsSpace(At(s, Len(word))) THEN Len(word) + 1
               ELSE IF plannerBoundariesRegex(At(s, i))
                       /\ WordAt(s, i + 1, word)
                       /\ IsSpace(At(s, i + 1 + Len(word)))
               THEN Len(word) + 2
               ELSE 0]
      \* $1 is empty for ^ and the boundary character otherwise
      repl == [i \in Positions(s) |->
                 IF ml[i] = Len(word) + 1 THEN <<>> ELSE <<At(s, i)>>]
  IN IF \A i \in Positions(s) : ml[i] = 0 THEN s
     ELSE ReplaceScan(s, ml, repl, 0)

RECURSIVE RemoveWords(_, _, _)
RemoveWords(s, wordList, atStart) ==
  IF wordList = <<>> THEN s
  ELSE RemoveWords(RemoveWord(s, Head(wordList), atStart),
                   Tail(wordList), atStart)

Capitalize(w) == IF w = <<>> THEN w ELSE <<ToUpperChar(w[1])>> \o Tail(w)

\* removeShortWords(s, shortWords, before)
\* (a replacement only deletes characters, so that a word with a character
\* that s does not have is never found: such words are left out beforehand)
removeShortWords(s, words, atStart) ==
  LET wordList == words \o [k \in DOMAIN words |-> Capitalize(words[k])]
      chars == Range(s)
  IN RemoveWords(s, SelectSeq(wordList, LAMBDA w : Range(w) \subseteq chars),
                 atStart)

articles ==
  << <<"a">>, <<"a","n">>, <<"t","h","e">>, <<"d","e","r">>, <<"d","i","e">>,
     <<"d","a","s">>, <<"d","e","n">>, <<"d","e","m">>, <<"d","e","s">>,
     <<"l","e">>, <<"l","a">>, <<"l","e","s">>, <<"e","l">>, <<"i","l">>,
     <<"l","o">>, <<"l","o","s">>, <<"d","e">>, <<"h","e","t">>,
     <<"e","l","s">>, <<"s","e","s">>, <<"e","s">>, <<"g","l","i">>,
     <<"e","e","n">>, <<"'","t">>, <<"'","n">> >>

\* '((^|boundary))(l|L|d|D|dell|nell)(\'|’)' -> '$1'
FrenchArticles ==
  << <<"l">>, <<"L">>, <<"d">>, <<"D">>, <<"d","e","l","l">>,
     <<"n","e","l","l">> >>
RemoveFrenchArticles(s) ==
  IF Range(s) \cap {"'", "u2019"} = {} THEN s ELSE
  LET Q == {"'", "u2019"}
      ml == [i \in Positions(s) |->
               IF i = 0 /\ WordThenLen(s, 0, FrenchArticles, Q) > 0
               THEN WordThenLen(s, 0, FrenchArticles, Q)
               ELSE IF boundariesRegex(At(s, i))
                       /\ WordThenLen(s, i + 1, FrenchArticles, Q) > 0
               THEN 1 + WordThenLen(s, i + 1, FrenchArticles, Q)
               ELSE 0]
      repl == [i \in Positions(s) |->
                 IF i = 0 /\ WordThenLen(s, 0, FrenchArticles, Q) > 0 THEN <<>>
                 ELSE <<At(s, i)>>]
  IN ReplaceScan(s, ml, repl, 0)

\* new RegExp('.' + boundary + '.', 'u').test(s)
HasTwoWords(s) ==
  \E k \in DOMAIN s : k > 1 /\ k < Len(s) /\ boundariesRegex(s[k])

(***************************************************************************)
(* makeAbbreviation                                                        *)
(***************************************************************************)
\* getPriority
getPriority(e, m) ==
  (IF e.patterns[m.pattern].startDash THEN 100 ELSE 0)
  + (IF e.patterns[m.pattern].endDash THEN 3 ELSE 0)
  + Len(m.appendix) - (m.iend - m.i - Len(m.appendix))
  - Len(e.patterns[m.pattern].pattern)

\* The test of line 435 with its first half only
Intersect_Half(a, b) == a.iend > b.i

\* matches[j][1] > matches[k][0] && matches[k][1] > matches[j][0]
Intersect(a, b) == a.iend > b.i /\ b.iend > a.i

\* The double loop with splice: every match removes the later ones that
\* intersect it.
RECURSIVE ResolveOverlaps(_)
ResolveOverlaps(matches) ==
  IF matches = <<>> THEN <<>>
  ELSE <<Head(matches)>>
       \o ResolveOverlaps(SelectSeq(Tail(matches),
                                    LAMBDA m : ~Intersect(Head(matches), m)))

\* The test with <= in the place of <
IsApplied_AllowEqual(m) == Len(m.abbr) <= m.iend - m.i

\* if (abbr.length < iend - i)
IsApplied(m) == Len(m.abbr) < m.iend - m.i

\* for (const [i, iend, abbr, _pattern] of matches)
RECURSIVE ApplyMatches(_, _)
ApplyMatches(result, matches) ==
  IF matches = <<>> THEN result
  ELSE LET m == Head(matches)
       IN ApplyMatches(IF IsApplied(m)
                       THEN Substring(result, 0, m.i) \o m.abbr
                            \o Substr(result, m.iend)
                       ELSE result,
                       Tail(matches))

\* makeAbbreviation with patterns undefined.  Gives the returned string (or
\* err, the TypeError of getPatternMatches), badPatterns_ as the call to
\* getPotentialPatterns leaves it, and the intermediate values: punct (after
\* the punctuation rules), stripped (after the articles), single (the early
\* return was taken), all (the matches sorted by priority), kept (after the
\* overlaps), matches (the matches applied, in the order applied), applied
\* (the title after the substitutions).
makeAbbreviation(e, words, value, languages) ==
  LET \* what has been computed when the function returns or raises
      give(bad, punct, stripped, single, err, result, matches, kept, all,
           applied) ==
        [err |-> err, result |-> result, badPatterns_ |-> bad,
         punct |-> punct, stripped |-> stripped, single |-> single,
         matches |-> matches, kept |-> kept, all |-> all,
         applied |-> applied]
      \* lines 441-455: the substitutions, the short words, the whitespace
      apply(bad, punct, stripped, byPriority, kept, ordered) ==
        give(bad, punct, stripped, FALSE, FALSE,
             Trim(CollapseSpaces(removeShortWords(
               ApplyMatches(stripped, ordered), words, FALSE))),
             SelectSeq(ordered, IsApplied), kept, byPriority,
             ApplyMatches(stripped, ordered))
      \* lines 433-439: the overlaps, then
      \* sort((a, b) => getBeginning(b) - getBeginning(a))
      resolve(bad, punct, stripped, byPriority, kept) ==
        apply(bad, punct, stripped, byPriority, kept,
              StableSort(kept, SubSeq([k \in DOMAIN kept |-> 0 - kept[k].i],
                                      1, Len(kept))))
      \* line 431: sort((a, b) => getPriority(a) - getPriority(b))
      plan(bad, punct, stripped, matches) ==
        resolve(bad, punct, stripped, matches, ResolveOverlaps(matches))
      collected(bad, punct, stripped, c) ==
        IF c.err
        THEN give(bad, punct, stripped, FALSE, TRUE, <<>>, <<>>, <<>>, <<>>,
                  stripped)
        ELSE plan(bad, punct, stripped,
                  StableSort(c.matches,
                             SubSeq([k \in DOMAIN c.matches |->
                                       getPriority(e, c.matches[k])],
                                    1, Len(c.matches))))
      \* lines 410-424: the single-word return, or the matches
      abbreviate(pot, punct, stripped) ==
        IF ~HasTwoWords(removeShortWords(stripped, words, TRUE))
        THEN give(pot.badPatterns_, punct, stripped, TRUE, FALSE,
                  Trim(CollapseSpaces(stripped)), <<>>, <<>>, <<>>, stripped)
        ELSE collected(pot.badPatterns_, punct, stripped,
                       CollectMatches(e, stripped, pot.result, languages,
                                      FALSE))
      \* lines 386-407: the separators and the articles
      strip(pot, punct) ==
        abbreviate(pot, punct,
                   RemoveFrenchArticles(removeShortWords(
                     RemoveSeparators(punct), articles, TRUE)))
  IN strip(getPotentialPatterns(e, value, FALSE), NormalizePunctuation(value))

(***************************************************************************)
(* Inputs.                                                                 *)
(***************************************************************************)
\* The sequences of at most n elements of S
RECURSIVE SeqsUpTo(_, _)
SeqsUpTo(S, n) ==
  IF n = 0 THEN {<<>>}
  ELSE LET shorter == SeqsUpTo(S, n - 1)
       IN shorter \cup {Append(q, x) : q \in shorter, x \in S}

TreeAlphabet == {"a", "b"}
\* Positions given to PrefixTree.add: strings without '-' and '?'
TreeKeys == SeqsUpTo(TreeAlphabet, MaxKeyLen)
\* Values given to PrefixTree.get
TreeValues == SeqsUpTo(TreeAlphabet, MaxKeyLen + 1)

HeaderLine == <<"W", "TAB", "A", "TAB", "L">>
\* The lines of an LTWA file: two patterns that do not start with a
\* letter, a prefix pattern, a suffix pattern, a record whose abbreviation
\* has a letter that the pattern does not have, the prefix pattern a second
\* time, a blank line, a line of two fields, a line whose pattern is short
\* once its comment is removed, the record of 'proceedings', and a word
\* that is not abbreviated.
LtwaFile ==
  << <<"'","s","a","b", "TAB", "n",".","a",".", "TAB", "e","n","g",",","f","r","e">>,
     <<"'","a","a","b", "TAB", "'","a",".", "TAB", "m","u","l">>,
     <<"a","e","c","-", "TAB", "a","e",".", "TAB", "e","n","g">>,
     <<"-","e","c","d", "TAB", "-","e","c",".", "TAB", "f","r","e">>,
     <<"a","e","c","d", "TAB", "x",".", "TAB", "e","n","g">>,
     <<"a","e","c","-", "TAB", "a","e",".", "TAB", "e","n","g">>,
     <<" ">>,
     <<"a","e","c","-", "TAB", "a","e",".">>,
     <<"a","e","(","c",")", "TAB", "a","e",".", "TAB", "e","n","g">>,
     <<"p","r","o","c","e","e","d","i","n","g","s", "TAB",
       "p","r","o","c",".", "TAB", "e","n","g">>,
     <<"a","e","c","d", "TAB", "n","."," ","a",".", "TAB", "e","n","g">> >>
\* The files given to the constructor: the header line and at most
\* MaxLtwaLines records of LtwaFile, in the order of the file.
Selections ==
  {sel \in SUBSET (DOMAIN LtwaFile) : Cardinality(sel) <= MaxLtwaLines}
LinesOf(sel) ==
  LET F[k \in 0..Len(LtwaFile)] ==
        IF k = 0 THEN <<>>
        ELSE IF k \in sel THEN Append(F[k - 1], LtwaFile[k]) ELSE F[k - 1]
  IN F[Len(LtwaFile)]
\* The file of all the well-formed records of LtwaFile: dictPatterns_ gets
\* more than maxNodeSize patterns and its root is split.
WholeFile == <<HeaderLine>> \o LinesOf({1, 2, 3, 4, 5, 6, 10})
\* A file of seven patterns that begin with 'a', the last one 'ak-': in
\* dictPatterns_ the root and its child 'a' are split, and 'ak-' is in the
\* bucket of the node 'ak'.
DeepFile ==
  <<HeaderLine>> \o LinesOf({3, 5, 6}) \o LinesOf({3, 5, 6})
    \o << <<"a","k","-", "TAB", "a","k",".", "TAB", "e","n","g">> >>
LtwaInputs ==
  {<<HeaderLine>> \o LinesOf(sel) : sel \in Selections}
  \cup {WholeFile, DeepFile}

ShortWordsInput == << <<" ", "o", "f", " ">>, <<>> >>

TitleTokens ==
  { <<"A","u00E9","c","d">>, <<" ">>, <<"'","s","a","b">>, <<"-">> }
\* Titles with punctuation: a dependent title, short titles, a title that
\* NFC changes, a word with a comma in it, runs of whitespace inside a
\* title and after an article, a word with a flection of two characters
\* and one with a flection of four, an article twice, words separated by
\* '?', '+', '&' and the apostrophe, a word with 'kh', a word with a long
\* flection before the same word without it.
PunctuatedTitles ==
  { <<"P","r","o","c","e","e","d","i","n","g","s",","," ",
      "S","e","r","i","e","s"," ","A">>,
    <<"a", ".">>, <<"A", ".">>, <<"e", "u0301">>,
    <<"-", " ", "A", "u00E9", ",", "c", "d">>,
    <<"A", "u00E9", "c", "d", " ", "TAB", "-">>,
    <<"a", " ", "TAB", "b">>,
    <<"A", "u00E9", "c", "d", "'", "s">>,
    <<"A", "u00E9", "c", "d", "i", "n", "e", "s">>,
    <<"L", "a", " ", "L", "a", " ", "L", "a", "n", "d">>,
    <<"A", "u00E9", "c", "d", "?", "A", "u00E9", "c", "d", "+",
      "A", "u00E9", "c", "d", "&", "A", "u00E9", "c", "d", "'",
      "A", "u00E9", "c", "d">>,
    <<"A", "k", "h">>,
    <<"A", "u00E9", "c", "d", "i", "n", "e", "s", " ",
      "A", "u00E9", "c", "d">> }
Titles ==
  {Flatten(q) : q \in SeqsUpTo(TitleTokens, MaxTitleTokens)}
  \cup PunctuatedTitles

eng == <<"e","n","g">>
fre == <<"f","r","e">>
LanguageLists ==
  { NoLanguages, Languages(<<>>), Languages(<<fre>>),
    Languages(<<eng, fre>>), Languages(<<fre, <<"*">> >>) }

(***************************************************************************)
(* The state machine.                                                      *)
(***************************************************************************)
Engine ==
  [patterns |-> patterns_, badPatterns_ |-> badPatterns_,
   nonprefixPatterns_ |-> nonprefixPatterns_,
   dictPatterns_ |-> dictPatterns_, size_ |-> size_]

NoCall ==
  [op |-> "none", title |-> <<>>, languages |-> NoLanguages,
   pretendDash |-> FALSE, pattern |-> 0, err |-> FALSE, result |-> <<>>,
   matches |-> <<>>, value |-> <<>>, punct |-> <<>>, before |-> <<>>,
   single |-> FALSE, thrown |-> "none", line |-> <<>>, all |-> <<>>,
   kept |-> <<>>, applied |-> <<>>]

InitTree == /\ root_ = NewPrefixTree
            /\ added = <<>>
InitEngine(inputs) ==
  /\ ltwa \in inputs
  /\ shortWords = ShortWordsInput
  /\ phase = "new"
  /\ patterns_ = <<>>
  /\ badPatterns_ = <<>>
  /\ nonprefixPatterns_ = NewPrefixTree
  /\ dictPatterns_ = NewPrefixTree
  /\ size_ = 0
  /\ shortWords_ = <<>>
  /\ call = NoCall

Init == InitTree /\ InitEngine(LtwaInputs)

\* new AbbrevIso(ltwa, shortWords)
Constructor ==
  /\ phase = "new"
  /\ \E c \in {ConstructorLoop(EmptyEngine, ltwa, TRUE)} :
     IF c.err # "none"
     THEN /\ phase' = "failed"
          /\ call' = [NoCall EXCEPT !.op = "constructor", !.err = TRUE,
                        !.thrown = c.err, !.line = c.line]
          /\ UNCHANGED <<patterns_, badPatterns_, nonprefixPatterns_,
                         dictPatterns_, size_, shortWords_>>
     ELSE /\ phase' = "ready"
          /\ UNCHANGED call
          /\ patterns_' = c.engine.patterns
          /\ badPatterns_' = c.engine.badPatterns_
          /\ nonprefixPatterns_' = c.engine.nonprefixPatterns_
          /\ dictPatterns_' = c.engine.dictPatterns_
          /\ size_' = c.engine.size_
          /\ shortWords_' = TrimShortWords(shortWords)
  /\ UNCHANGED <<ltwa, shortWords, treeVars>>

Frame == UNCHANGED <<ltwa, shortWords, patterns_, nonprefixPatterns_,
                     dictPatterns_, size_, shortWords_, treeVars>>

\* abbrevIso.getPotentialPatterns(title, pretendDash)
GetPotentialPatterns ==
  /\ phase = "ready"
  /\ \E title \in Titles, pretendDash \in BOOLEAN :
       \E r \in {getPotentialPatterns(Engine, title, pretendDash)} :
       /\ call' = [NoCall EXCEPT !.op = "getPotentialPatterns",
                     !.title = title, !.pretendDash = pretendDash,
                     !.result = r.result, !.before = badPatterns_]
       /\ badPatterns_' = r.badPatterns_
  /\ phase' = "called"
  /\ Frame

\* abbrevIso.getPatternMatches(value, pattern, languages, pretendDash)
GetPatternMatches ==
  /\ phase = "ready"
  /\ \E title \in Titles, languages \in LanguageLists,
        pretendDash \in BOOLEAN, id \in DOMAIN patterns_ :
       \E r \in {getPatternMatches(title, patterns_[id], languages,
                                   pretendDash)} :
       call' = [NoCall EXCEPT !.op = "getPatternMatches", !.title = title,
                  !.languages = languages, !.pretendDash = pretendDash,
                  !.pattern = id, !.err = r.err, !.matches = r.matches,
                  !.value = title, !.before = badPatterns_]
  /\ phase' = "called"
  /\ UNCHANGED badPatterns_
  /\ Frame

\* abbrevIso.getMatchingPatterns(value, languages, pretendDash)
GetMatchingPatterns ==
  /\ phase = "ready"
  /\ \E title \in Titles, languages \in LanguageLists,
        pretendDash \in BOOLEAN :
       \E r \in {getMatchingPatterns(Engine, title, languages, pretendDash)} :
       /\ call' = [NoCall EXCEPT !.op = "getMatchingPatterns",
                     !.title = title, !.languages = languages,
                     !.pretendDash = pretendDash, !.err = r.err,
                     !.result = r.result, !.matches = r.matches,
                     !.value = Trim(NFC(title)), !.before = badPatterns_]
       /\ badPatterns_' = r.badPatterns_
  /\ phase' = "called"
  /\ Frame

\* abbrevIso.makeAbbreviation(value, languages)
MakeAbbreviation ==
  /\ phase = "ready"
  /\ \E title \in Titles, languages \in LanguageLists :
       \E r \in {makeAbbreviation(Engine, shortWords_, title, languages)} :
       /\ call' = [NoCall EXCEPT !.op = "makeAbbreviation",
                     !.title = title, !.languages = languages,
                     !.err = r.err, !.result = r.result,
                     !.matches = r.matches, !.value = r.stripped,
                     !.punct = r.punct, !.before = badPatterns_,
                     !.single = r.single, !.all = r.all,
                     !.kept = r.kept, !.applied = r.applied]
       /\ badPatterns_' = r.badPatterns_
  /\ phase' = "called"
  /\ Frame

\* The caller has the result (or caught the error) and may call again.
Return ==
  /\ phase = "called"
  /\ phase' = "ready"
  /\ call' = NoCall
  /\ UNCHANGED badPatterns_
  /\ Frame

Next ==
  \/ Constructor
  \/ GetPotentialPatterns
  \/ GetPatternMatches
  \/ GetMatchingPatterns
  \/ MakeAbbreviation
  \/ Return

Spec == Init /\ [][Next]_vars

(***************************************************************************)
(* The prefix tree on its own.                                             *)
(***************************************************************************)
\* tree.add(position, object); the objects are numbered as they come
Add ==
  /\ Len(added) < MaxAdds
  /\ \E position \in TreeKeys :
       LET object == Len(added) + 1 IN
       /\ root_' = TreeAdd(root_, position, object)
       /\ added' = Append(added, <<position, object>>)
  /\ UNCHANGED engineVars

\* Keys and values with a character outside the BMP (two UTF-16 units).
AstralKeys ==
  { <<"uD83D", "uDE00">>, <<"uD83D", "uDE00", "a">>, <<"a">> }

\* PrefixTree.add with the keys above
AddAstral ==
  /\ Len(added) < MaxAdds
  /\ \E position \in AstralKeys :
       LET object == Len(added) + 1 IN
       /\ root_' = TreeAdd(root_, position, object)
       /\ added' = Append(added, <<position, object>>)
  /\ UNCHANGED engineVars

InitAstralTree == InitTree /\ InitEngine({<<HeaderLine>>})
NextAstralTree == AddAstral
SpecAstralTree == InitAstralTree /\ [][NextAstralTree]_vars

InitPrefixTree == InitTree /\ InitEngine({<<HeaderLine>>})
NextPrefixTree == Add
SpecPrefixTree == InitPrefixTree /\ [][NextPrefixTree]_vars

(***************************************************************************)
(* The functions of collation.js on their own.                             *)
(***************************************************************************)
\* Strings given to getCollatingMatch: letters, the middle dot (equivalent
\* to the empty string), sharp s and the ligature ae (equivalent to two
\* letters).
CollationAlphabet == {"a", "e", "s", "u00B7", "u00DF", "u00E6"}
CollationStrings == SeqsUpTo(CollationAlphabet, MaxCollationLen)

\* collation.getCollatingMatch(s, t)
GetCollatingMatch ==
  /\ call.op = "none"
  /\ \E s \in CollationStrings, t \in CollationStrings :
       call' = [NoCall EXCEPT !.op = "getCollatingMatch", !.title = s,
                  !.value = t, !.result = getCollatingMatch(s, t)]
  /\ UNCHANGED <<ltwa, shortWords, phase, patterns_, badPatterns_,
                 nonprefixPatterns_, dictPatterns_, size_, shortWords_,
                 treeVars>>

InitCollation == InitTree /\ InitEngine({<<HeaderLine>>})
NextCollation == GetCollatingMatch
SpecCollation == InitCollation /\ [][NextCollation]_vars

\* Strings given to promiscuouslyNormalize: letters of both cases, h and
\* k, a digit, boundary characters, the apostrophe (not a boundary), the
\* characters that PrefixTree reserves, and characters that normalize
\* changes.
NormalizeAlphabet ==
  {"a", "h", "k", "B", "1", " ", "-", "?", "'", "u00DF", "u00B7", "u00C9"}
NormalizeStrings == SeqsUpTo(NormalizeAlphabet, MaxNormalizeLen)

\* collation.promiscuouslyNormalize(s)
PromiscuouslyNormalize ==
  /\ call.op = "none"
  /\ \E s \in NormalizeStrings :
       call' = [NoCall EXCEPT !.op = "promiscuouslyNormalize", !.title = s,
                  !.result = promiscuouslyNormalize(s)]
  /\ UNCHANGED <<ltwa, shortWords, phase, patterns_, badPatterns_,
                 nonprefixPatterns_, dictPatterns_, size_, shortWords_,
                 treeVars>>

InitNormalize == InitTree /\ InitEngine({<<HeaderLine>>})
NextNormalize == PromiscuouslyNormalize
SpecNormalize == InitNormalize /\ [][NextNormalize]_vars

(***************************************************************************)
(* makeAbbreviation with long patterns and long words: the priorities of   *)
(* line 427 depend on the lengths.                                         *)
(***************************************************************************)
\* A word of n letters c.
PriorityBody(n) == [k \in 1..n |-> "c"]
\* The files: the record of the prefix pattern 'aec-' and the record of a
\* pattern with a start-dash whose body is a word of n letters.
PriorityFiles ==
  { <<HeaderLine, LtwaFile[3],
      <<"-">> \o PriorityBody(n) \o <<"TAB", "c", ".", "TAB", "e", "n", "g">> >> :
    n \in (MaxPriorityBody - 3)..MaxPriorityBody }
\* The titles: the word 'Aécd' and a word of m letters.
PriorityTitles ==
  { <<"A", "u00E9", "c", "d", " ">> \o PriorityBody(m) : m \in 1..MaxPriorityBody }

\* AbbrevIso.makeAbbreviation(value, languages) on the titles above
MakeAbbreviationLong ==
  /\ phase = "ready"
  /\ \E title \in PriorityTitles, languages \in LanguageLists :
       \E r \in {makeAbbreviation(Engine, shortWords_, title, languages)} :
       /\ call' = [NoCall EXCEPT !.op = "makeAbbreviation",
                     !.title = title, !.languages = languages,
                     !.err = r.err, !.result = r.result,
                     !.matches = r.matches, !.value = r.stripped,
                     !.punct = r.punct, !.before = badPatterns_,
                     !.single = r.single, !.all = r.all,
                     !.kept = r.kept, !.applied = r.applied]
       /\ badPatterns_' = r.badPatterns_
  /\ phase' = "called"
  /\ Frame

InitPriority == InitTree /\ InitEngine(PriorityFiles)
NextPriority ==
  \/ Constructor
  \/ MakeAbbreviationLong
  \/ Return
SpecPriority == InitPriority /\ [][NextPriority]_vars

(***************************************************************************)
(* Properties.  A call has returned when phase is "called" and err is      *)
(* FALSE; call holds its arguments, what it returned and, for the checks,  *)
(* the matches behind the result and the string their offsets refer to.    *)
(***************************************************************************)
Returned(op) == phase = "called" /\ call.op = op /\ ~call.err

\* C1: after any sequence of add(key, obj) calls, for every pair (k, v)
\* that was added and every string s of which k is a prefix, get(s)
\* contains v: there are no false negatives.
C1_NoFalseNegatives ==
  \A s \in TreeValues \cup AstralKeys :
    LET got == Range(TreeGet(root_, s)) IN
    \A n \in DOMAIN added :
      IsPrefixOf(added[n][1], s) => added[n][2] \in got

\* The root and its child 'a' have been split, objects stand at the root,
\* at 'a' and at 'ab', and get('aba') finds those of 'a' and 'ab'.
C1_Witness ==
  /\ root_[<<>>].split
  /\ <<"a">> \in DOMAIN root_ /\ root_[<<"a">>].split
  /\ \E n \in DOMAIN added : added[n][1] = <<>>
  /\ \E n, m \in DOMAIN added :
       /\ added[n][1] = <<"a">>
       /\ added[m][1] = <<"a", "b">>
       /\ {n, m} \subseteq Range(TreeGet(root_, <<"a", "b", "a">>))

\* C2: makeAbbreviation is idempotent: applied to its own result, with the
\* same engine and languages, it returns that result again (up to
\* whitespace collapse), also when the result has abbreviations ending
\* in '.'.
C2_Idempotent ==
  Returned("makeAbbreviation") =>
    LET again == makeAbbreviation(Engine, shortWords_, call.result,
                                  call.languages)
    IN ~again.err =>
         Trim(CollapseSpaces(again.result)) = Trim(CollapseSpaces(call.result))

\* The number of runs of word characters of s, the other characters being
\* those of boundariesRegex.
WordRuns(s) ==
  Cardinality({k \in DOMAIN s :
                 /\ ~boundariesRegex(s[k])
                 /\ (k = 1 \/ boundariesRegex(s[k - 1]))})

\* C3: for every title that has at most one run of word characters after
\* the removal of the articles, makeAbbreviation returns that title with
\* whitespace collapsed: no LTWA substitution is applied, whatever the
\* patterns of the engine.
C3_SingleWordPreserved ==
  Returned("makeAbbreviation") /\ WordRuns(call.value) <= 1 =>
    call.result = Trim(CollapseSpaces(call.value))

\* C4: every match that makeAbbreviation substitutes has an abbreviation
\* strictly shorter than the span it replaces, and the returned string is
\* never longer than the title as it stands after the punctuation rules.
C4_StrictShortening ==
  Returned("makeAbbreviation") =>
    /\ \A k \in DOMAIN call.matches :
         Len(call.matches[k].abbr) < call.matches[k].iend - call.matches[k].i
    /\ Len(call.result) <= Len(call.punct)

\* makeAbbreviation("'sab Aécd") with the patterns 'sab (not
\* abbreviated: a match as long as its span, skipped) and aec- (applied).
C4_Witness ==
  /\ Returned("makeAbbreviation")
  /\ call.title = <<"'", "s", "a", "b", " ", "A", "u00E9", "c", "d">>
  /\ \E id \in DOMAIN patterns_ : patterns_[id].replacement = <<"u2013">>
  /\ Len(call.matches) = 1
  /\ call.result = <<"'", "s", "a", "b", " ", "A", "u00E9", ".">>
  /\ Len(call.result) < Len(call.punct)

\* abbr is made of characters of span, in their order, and of '.'
RECURSIVE CopiedInOrder(_, _)
CopiedInOrder(abbr, span) ==
  IF abbr = <<>> THEN TRUE
  ELSE IF Head(abbr) = "." THEN CopiedInOrder(Tail(abbr), span)
  ELSE IF span = <<>> THEN FALSE
  ELSE IF Head(abbr) = Head(span) THEN CopiedInOrder(Tail(abbr), Tail(span))
  ELSE CopiedInOrder(abbr, Tail(span))

\* C5: the abbreviation of every match returned by getPatternMatches, and
\* of every match applied by makeAbbreviation, is made of characters copied
\* verbatim and in order from the matched span value[i..iend) and of '.'
\* characters; no other character of the replacement gets into it.
C5_CopiedVerbatim ==
  Returned("getPatternMatches") \/ Returned("makeAbbreviation") =>
    \A k \in DOMAIN call.matches :
      LET m == call.matches[k]
      IN CopiedInOrder(m.abbr, Substring(call.value, m.i, m.iend))

\* The pattern aec- (replacement 'ae.') applied to 'Aécd' gives
\* 'Aé.', with the capital and the accent of the title.
C5_Witness ==
  /\ Returned("makeAbbreviation")
  /\ \E k \in DOMAIN call.matches :
       /\ call.matches[k].abbr = <<"A", "u00E9", ".">>
       /\ patterns_[call.matches[k].pattern].replacement = <<"a", "e", ".">>
       /\ Substring(call.value, call.matches[k].i, call.matches[k].iend)
            = <<"A", "u00E9", "c", "d">>

\* The filter as stated: every pattern when languages is not given or has
\* '*', otherwise the patterns with a language of the list.
Allowed(pattern, languages) ==
  \/ ~languages.given
  \/ Includes(languages.list, <<"*">>)
  \/ Range(pattern.languages) \cap Range(languages.list) # {}

\* C6: when languages is not given or contains '*', getPatternMatches,
\* getMatchingPatterns and makeAbbreviation use every pattern; otherwise a
\* pattern yields its matches iff one of its languages is in the list (an
\* empty list excludes every pattern).
C6_LanguageFilter ==
  /\ phase = "called" /\ call.op = "getPatternMatches" =>
       LET all == getPatternMatches(call.title, patterns_[call.pattern],
                                    NoLanguages, call.pretendDash)
       IN IF Allowed(patterns_[call.pattern], call.languages)
          THEN call.err = all.err /\ call.matches = all.matches
          ELSE ~call.err /\ call.matches = <<>>
  /\ phase = "called" /\ call.op = "getMatchingPatterns" =>
       LET pot == getPotentialPatterns(Engine, call.title,
                                       call.pretendDash).result
           allowed == SelectSeq(pot,
                        LAMBDA id : Allowed(patterns_[id], call.languages))
           c == CollectMatches(Engine, call.value, allowed, NoLanguages,
                               call.pretendDash)
       IN /\ call.err = c.err
          /\ ~c.err => Range(call.matches) = Range(c.matches)
  /\ Returned("makeAbbreviation") =>
       /\ \A k \in DOMAIN call.matches :
            Allowed(patterns_[call.matches[k].pattern], call.languages)
       /\ (\A id \in DOMAIN patterns_ :
              Allowed(patterns_[id], call.languages)) =>
            LET all == makeAbbreviation(Engine, shortWords_, call.title,
                                        NoLanguages)
            IN ~all.err /\ call.result = all.result

\* getMatchingPatterns('Aécd', ['fre']) with the patterns aec- (eng)
\* and -ecd (fre): the first is excluded, the second returned.
C6_Witness ==
  /\ Returned("getMatchingPatterns")
  /\ call.title = <<"A", "u00E9", "c", "d">>
  /\ call.languages = Languages(<<fre>>)
  /\ Len(patterns_) = 2
  /\ ~Allowed(patterns_[1], call.languages)
  /\ patterns_[1].pattern = <<"a", "e", "c", "-">>
  /\ call.result = <<2>>

SubList(l1, l2) == \A k \in DOMAIN l1 : Includes(l2, l1[k])
Count(seq, x) == Cardinality({k \in DOMAIN seq : seq[k] = x})

\* C7: for every title and every two language lists L1, L2 with L1 within
\* L2, every pattern returned by getMatchingPatterns(title, L1) is returned
\* by getMatchingPatterns(title, L2) too, at least as many times (a call
\* that raises returns nothing).
C7_Monotone ==
  Returned("getMatchingPatterns") /\ call.languages.given =>
    \A L2 \in LanguageLists :
      L2.given /\ SubList(call.languages.list, L2.list) =>
        LET r2 == getMatchingPatterns(Engine, call.title, L2,
                                      call.pretendDash)
        IN \A id \in DOMAIN patterns_ :
             Count(call.result, id) <= Count(r2.result, id)

\* C8: getMatchingPatterns returns the patterns of all the matches found
\* in the NFC-normalized, trimmed title, one entry per match, in the order
\* of non-decreasing start offset of the match.
C8_SortedByStart ==
  Returned("getMatchingPatterns") =>
    LET value == Trim(NFC(call.title))
        pot == getPotentialPatterns(Engine, call.title,
                                    call.pretendDash).result
        found == UNION {Range(getPatternMatches(value, patterns_[pot[k]],
                                call.languages, call.pretendDash).matches) :
                        k \in DOMAIN pot}
    IN /\ Range(call.matches) = found
       /\ Len(call.matches) = Cardinality(found)
       /\ Len(call.result) = Len(call.matches)
       /\ \A k \in DOMAIN call.matches :
            call.result[k] = call.matches[k].pattern
       /\ \A j, k \in DOMAIN call.matches :
            j < k => call.matches[j].i <= call.matches[k].i

\* A title that starts with a space, with two matches: the first at offset
\* 0 of the trimmed title, the other after it.
C8_Witness ==
  /\ Returned("getMatchingPatterns")
  /\ call.title # <<>> /\ call.title[1] = " "
  /\ Len(call.result) >= 2
  /\ call.matches[1].i = 0
  /\ call.matches[Len(call.matches)].i > 0
  /\ call.result[1] # call.result[Len(call.result)]

\* C9: for every engine that the constructor accepted and every title,
\* getPotentialPatterns, getPatternMatches, getMatchingPatterns and
\* makeAbbreviation return a result and never raise.
C9_NeverRaises == phase = "called" => ~call.err

\* C10: no call to getPotentialPatterns, getMatchingPatterns or
\* makeAbbreviation changes the state of the engine: badPatterns_ has the
\* contents and the order it had before the call.
C10_ReadOnly ==
  /\ phase = "called"
  /\ call.op \in {"getPotentialPatterns", "getMatchingPatterns",
                  "makeAbbreviation"}
  => badPatterns_ = call.before

\* The lines of ltwa that are records: not the header, not blank.
Records ==
  {k \in DOMAIN ltwa : k > 1 /\ \E c \in DOMAIN ltwa[k] : ~IsSpace(ltwa[k][c])}
FieldCount(line) == 1 + Cardinality({k \in DOMAIN line : line[k] = "TAB"})
FirstField(line) ==
  IF "TAB" \notin Range(line) THEN line
  ELSE SubSeq(line, 1, (CHOOSE k \in DOMAIN line :
                          /\ line[k] = "TAB"
                          /\ \A j \in 1..(k - 1) : line[j] # "TAB") - 1)
\* Fewer than three fields, or a pattern of less than 3 characters after
\* NFC, the removal of the comment and trimming.
Malformed(line) ==
  \/ FieldCount(line) < 3
  \/ Len(Trim(RemoveComment(Trim(NFC(FirstField(line)))))) < 3

\* C11: the construction fails when a record of the LTWA has fewer than
\* three tab-separated fields or a pattern that is shorter than 3 characters
\* after NFC, comment removal and trimming, and the error carries the raw
\* line of the first such record; the header line and the blank lines are
\* skipped without error, and every other line becomes a pattern.
C11_ConstructionErrors ==
  /\ phase # "new" /\ (\E k \in Records : Malformed(ltwa[k])) =>
       /\ phase = "failed" /\ call.op = "constructor" /\ call.err
       /\ \E k \in Records :
            /\ Malformed(ltwa[k])
            /\ \A j \in Records : j < k => ~Malformed(ltwa[j])
            /\ call.line = ltwa[k]
            /\ call.thrown = IF FieldCount(ltwa[k]) < 3 THEN "fields"
                              ELSE "short"
  /\ phase # "new" /\ (\A k \in Records : ~Malformed(ltwa[k])) =>
       /\ phase \in {"ready", "called"}
       /\ size_ = Cardinality(Records)
       /\ Len(patterns_) = Cardinality(Records)
       /\ \A n \in DOMAIN patterns_ :
            \E k \in Records :
              /\ patterns_[n].line = ltwa[k]
              /\ Cardinality({j \in Records : j <= k}) = n

\* A header, a blank line and a record whose pattern has 5 characters with
\* its comment and 2 without: the constructor raises with that line.
C11_Witness ==
  /\ phase = "failed"
  /\ Len(ltwa) = 3
  /\ ltwa[2] = <<" ">>
  /\ call.thrown = "short"
  /\ call.line = ltwa[3]
  /\ Len(FirstField(ltwa[3])) = 5

\* The number of places of the tree (a node and an index of its bucket)
\* that hold the object.
Occurrences(tree, object) ==
  Cardinality({pl \in UNION {{<<path, k>> : k \in DOMAIN tree[path].bucket} :
                              path \in DOMAIN tree} :
                 tree[pl[1]].bucket[pl[2]][2] = object})
\* The pattern without its dashes, normalized, does not begin with a letter
\* of A-Z, a-z.
BodyNotLetterInitial(pattern) ==
  LET p == pattern.pattern
      from == IF p[1] = "-" THEN 2 ELSE 1
      to == IF p[Len(p)] = "-" THEN Len(p) - 1 ELSE Len(p)
      body == normalize(SubSeq(p, from, to))
  IN body = <<>> \/ body[1] \notin (LowerSet \cup UpperSet)

\* C12: once the engine is built, every pattern is at exactly one place of
\* the two prefix trees: in nonprefixPatterns_ iff its startDash is true
\* (its pattern begins with '-'), in dictPatterns_ iff it is false; and
\* every pattern whose normalized body, dashes stripped, does not begin with
\* an ASCII letter is in badPatterns_.
C12_IndexPartition ==
  phase \in {"ready", "called"} =>
    \A id \in DOMAIN patterns_ :
      /\ patterns_[id].startDash = (patterns_[id].pattern[1] = "-")
      /\ Occurrences(nonprefixPatterns_, id)
           = IF patterns_[id].startDash THEN 1 ELSE 0
      /\ Occurrences(dictPatterns_, id)
           = IF patterns_[id].startDash THEN 0 ELSE 1
      /\ BodyNotLetterInitial(patterns_[id]) =>
           \E k \in DOMAIN badPatterns_ : badPatterns_[k] = id

\* The engine of the whole file: the root of dictPatterns_ is split, a
\* pattern with a starting dash is in nonprefixPatterns_, and two patterns
\* are in badPatterns_.
C12_Witness ==
  /\ phase = "ready"
  /\ dictPatterns_[<<>>].split
  /\ \E id \in DOMAIN patterns_ :
       patterns_[id].startDash /\ Occurrences(nonprefixPatterns_, id) = 1
  /\ Len(badPatterns_) = 2

\* No whitespace at the ends of s and no two whitespace characters in a row
CanonicalWhitespace(s) ==
  /\ s # <<>> => ~IsSpace(s[1]) /\ ~IsSpace(s[Len(s)])
  /\ \A k \in 1..(Len(s) - 1) : ~(IsSpace(s[k]) /\ IsSpace(s[k + 1]))

\* C13: whatever makeAbbreviation returns, by the single-word return or by
\* the normal return, has no leading or trailing whitespace and no run of
\* two or more whitespace characters.
C13_CanonicalWhitespace ==
  Returned("makeAbbreviation") => CanonicalWhitespace(call.result)

\* The normal return for a title with a space and a tab in a row after a
\* word that is abbreviated.
C13_Witness ==
  /\ Returned("makeAbbreviation")
  /\ ~call.single
  /\ call.title = <<"A", "u00E9", "c", "d", " ", "TAB", "-">>
  /\ ~CanonicalWhitespace(call.value)
  /\ call.result = <<"A", "u00E9", ".", " ", "-">>

ProceedingsSeriesA ==
  <<"P","r","o","c","e","e","d","i","n","g","s",","," ",
    "S","e","r","i","e","s"," ","A">>
\* The engine has the pattern 'proceedings' with the abbreviation 'proc.',
\* and no other pattern of it has a match in the title.
OnlyProceedingsMatches(title) ==
  /\ \E id \in DOMAIN patterns_ :
       /\ patterns_[id].pattern = SubSeq(ToLowerCase(ProceedingsSeriesA), 1, 11)
       /\ patterns_[id].replacement = <<"p", "r", "o", "c", ".">>
  /\ \A id \in DOMAIN patterns_ :
       patterns_[id].replacement # <<"p", "r", "o", "c", ".">> =>
         \A pretendDash \in BOOLEAN :
           \E m \in {getPatternMatches(title, patterns_[id], NoLanguages,
                                        pretendDash)} :
             ~m.err /\ m.matches = <<>>

\* C14: with an LTWA whose only pattern matching the title abbreviates
\* 'Proceedings' to 'Proc.', and languages not restricted,
\* makeAbbreviation('Proceedings, Series A') returns 'Proc. A': the comma is
\* dropped, the separator 'Series' is removed and its enumeration 'A' is
\* kept, not removed as the article 'A'.
C14_ProceedingsSeriesA ==
  /\ phase = "called" /\ call.op = "makeAbbreviation"
  /\ call.title = ProceedingsSeriesA
  /\ ~call.languages.given \/ Includes(call.languages.list, <<"*">>)
  /\ OnlyProceedingsMatches(call.title)
  => /\ ~call.err
     /\ call.result = <<"P", "r", "o", "c", ".", " ", "A">>

\* The call of the scenario: 'Proceedings Series A' after the punctuation
\* rules, 'Proceedings A' after the separators and the articles, one match
\* applied.
C14_Witness ==
  /\ Returned("makeAbbreviation")
  /\ call.title = ProceedingsSeriesA
  /\ ~call.languages.given
  /\ OnlyProceedingsMatches(call.title)
  /\ Len(call.punct) = Len(ProceedingsSeriesA) - 1
  /\ call.value = SubSeq(ProceedingsSeriesA, 1, 11) \o <<" ", "A">>
  /\ Len(call.matches) = 1
  /\ call.result = <<"P", "r", "o", "c", ".", " ", "A">>

\* C15: for an empty title, a title of whitespace only and a title of one
\* or two characters after trimming (such as a letter and a period),
\* makeAbbreviation returns the NFC-normalized, trimmed title unchanged.
C15_DegenerateTitles ==
  /\ phase = "called" /\ call.op = "makeAbbreviation"
  /\ Len(Trim(NFC(call.title))) <= 2
  => /\ ~call.err
     /\ call.result = Trim(NFC(call.title))

\* C16: for every title, what getPotentialPatterns returns contains every
\* pattern of badPatterns_ and no pattern object more than once, also when
\* the LTWA has two records with the same raw line and when a pattern is
\* found at several positions of the title.
C16_NoDuplicates ==
  Returned("getPotentialPatterns") =>
    /\ \A k \in DOMAIN badPatterns_ : Includes(call.result, badPatterns_[k])
    /\ \A j, k \in DOMAIN call.result :
         j # k => call.result[j] # call.result[k]

\* C17: every pattern whose match makeAbbreviation(title) substitutes into
\* its result is among the patterns that getMatchingPatterns(title) returns
\* for the same languages and the same (default) patterns.
C17_MatchingPatternsCover ==
  Returned("makeAbbreviation") =>
    \E r \in {getMatchingPatterns(Engine, call.title, call.languages, FALSE)} :
      \A k \in DOMAIN call.matches :
        ~r.err /\ Includes(r.result, call.matches[k].pattern)

\* C18: when getCollatingMatch(s, t) does not return false, it returns R
\* with R[0] and R[1] of the same length, the concatenation of R[1] equal
\* to t, the concatenation of R[0] a prefix of s, and R[0][k] equivalent
\* (cEquiv) to R[1][k] for every k, also with characters that normalize to
\* the empty string or to two letters.
C18_CollatingMatch ==
  call.op = "getCollatingMatch" /\ call.result.ok =>
    /\ Len(call.result.r0) = Len(call.result.r1)
    /\ Flatten(call.result.r1) = call.value
    /\ IsPrefixOf(Flatten(call.result.r0), call.title)
    /\ \A k \in DOMAIN call.result.r0 :
         k \in DOMAIN call.result.r1
         /\ cEquiv(call.result.r0[k], call.result.r1[k])

\* C19: for every input string, promiscuouslyNormalize returns a string made
\* only of the letters a-z and space, containing no 'h'; hence the keys and
\* queries of the prefix trees contain neither '-' nor '?'.
IndexAlphabet == (LowerSet \cup {" "}) \ {"h"}
C19_IndexAlphabet ==
  call.op = "promiscuouslyNormalize" =>
    /\ Range(call.result) \subseteq IndexAlphabet
    /\ "-" \notin Range(call.result)
    /\ "?" \notin Range(call.result)
C19_Witness ==
  /\ call.op = "promiscuouslyNormalize"
  /\ "h" \in Range(call.title)
  /\ Range(call.title) \cap {"-", "?"} # {}
  /\ call.result # <<>>

\* The characters of s at the positions of K from k on, in order.
RECURSIVE PickFrom(_, _, _)
PickFrom(s, K, k) ==
  IF k > Len(s) THEN <<>>
  ELSE (IF k \in K THEN <<s[k]>> ELSE <<>>) \o PickFrom(s, K, k + 1)
\* normalize(s), lowercased, with every boundary character replaced by a
\* space.
BoundariesAsSpaces(s) ==
  [k \in DOMAIN ToLowerCase(normalize(s)) |->
     IF ToLowerCase(normalize(s))[k] \in BoundaryChars THEN " "
     ELSE ToLowerCase(normalize(s))[k]]
\* Whitespace collapsed and stripped: the runs of other characters, with
\* one space between two runs.
CollapsedAndStripped(s) ==
  PickFrom([k \in DOMAIN s |-> IF IsSpace(s[k]) THEN " " ELSE s[k]],
           {k \in DOMAIN s :
              \/ ~IsSpace(s[k])
              \/ /\ k > 1 /\ ~IsSpace(s[k - 1])
                 /\ \E m \in (k + 1)..Len(s) : ~IsSpace(s[m])}, 1)
\* Every character outside [a-z ] dropped.
OutsideDropped(s) ==
  PickFrom(s, {k \in DOMAIN s : s[k] \in LowerSet \cup {" "}}, 1)
\* Every character outside [a-z ] replaced by a space.
OutsideAsSpaces(s) ==
  [k \in DOMAIN s |-> IF s[k] \in LowerSet \cup {" "} THEN s[k] ELSE " "]
\* Every 'kh' removed, then every remaining 'h' removed.
WithoutKh(s) ==
  PickFrom(s, {k \in DOMAIN s :
                 /\ ~(s[k] = "k" /\ k < Len(s) /\ s[k + 1] = "h")
                 /\ ~(s[k] = "h" /\ k > 1 /\ s[k - 1] = "k")}, 1)
WithoutH(s) == PickFrom(s, {k \in DOMAIN s : s[k] # "h"}, 1)

\* C20 (as stated): the result of promiscuouslyNormalize(s) is normalize(s),
\* lowercased, with every boundary character replaced by a space, whitespace
\* collapsed and stripped, then every character outside [a-z ] deleted, then
\* every 'kh' removed and then every remaining 'h' removed.
C20_PipelineDrops ==
  call.op = "promiscuouslyNormalize" =>
    call.result = WithoutH(WithoutKh(OutsideDropped(
                    CollapsedAndStripped(BoundariesAsSpaces(call.title)))))
\* C20 (amended): the same, with every character outside [a-z ] replaced by
\* a space instead of deleted.
C20_PipelineSpaces ==
  call.op = "promiscuouslyNormalize" =>
    call.result = WithoutH(WithoutKh(OutsideAsSpaces(
                    CollapsedAndStripped(BoundariesAsSpaces(call.title)))))
C20_Witness ==
  /\ call.op = "promiscuouslyNormalize"
  /\ Len(call.title) = 3
  /\ call.title[2] \in {"'", "1"}
  /\ call.result = <<"a", " ", "k">>

\* C21: after every completed add, no bucket of the tree holds more than
\* maxNodeSize pairs with a non-empty remaining key, and a bucket of more
\* than maxNodeSize pairs holds only pairs with an empty remaining key.
NonEmptyPairs(bucket) == {k \in DOMAIN bucket : bucket[k][1] # <<>>}
C21_BucketBound ==
  \A path \in DOMAIN root_ :
    /\ Cardinality(NonEmptyPairs(root_[path].bucket)) <= maxNodeSize
    /\ Len(root_[path].bucket) > maxNodeSize =>
         NonEmptyPairs(root_[path].bucket) = {}

\* C22: when pretendDash is false, every match that getPatternMatches
\* reports for a pattern without a start-dash begins at offset 0 or right
\* after a boundary character of the title (a pattern with a start-dash,
\* and every pattern under pretendDash, is free to match at any offset).
C22_WordStart ==
  (/\ Returned("getPatternMatches")
   /\ ~call.pretendDash
   /\ ~patterns_[call.pattern].startDash) =>
    \A k \in DOMAIN call.matches :
      \/ call.matches[k].i = 0
      \/ boundariesRegex(call.value[call.matches[k].i])
\* A match after a boundary, in a title where the body of the pattern also
\* stands inside a word.
C22_Witness ==
  /\ Returned("getPatternMatches")
  /\ ~call.pretendDash
  /\ ~patterns_[call.pattern].startDash
  /\ \E k \in DOMAIN call.matches : call.matches[k].i > 0
  /\ \E i \in 1..(Len(call.value) - 1) :
       /\ ~boundariesRegex(call.value[i])
       /\ getCollatingMatch(Substr(call.value, i),
                            StripEndDash(patterns_[call.pattern].pattern)).ok

\* The offset where the aligned body of the pattern ends, for a match of
\* the pattern that starts at offset i.
BodyEnd(value, pattern, pretendDash, i) ==
  LET start == IF pattern.startDash \/ pretendDash
               THEN StripStartDash(pattern.pattern) ELSE pattern.pattern
      body == IF pattern.endDash \/ pretendDash THEN StripEndDash(start)
              ELSE start
  IN i + Len(Flatten(getCollatingMatch(Substr(value, i), body).r0))
AtBoundaryOrEnd(value, iend) ==
  iend = Len(value) \/ (iend < Len(value) /\ boundariesRegex(value[iend + 1]))
MatchEnd(value, pattern, pretendDash, m) ==
  LET b == BodyEnd(value, pattern, pretendDash, m.i) IN
  /\ AtBoundaryOrEnd(value, m.iend)
  /\ b <= m.iend
  /\ IF pattern.endDash \/ pretendDash
     THEN /\ m.appendix = <<>>
          /\ \A q \in b..(m.iend - 1) : ~boundariesRegex(value[q + 1])
     ELSE /\ m.appendix = Substring(value, b, m.iend)
          /\ Len(m.appendix) <= 3
          /\ Range(m.appendix) \subseteq {"i", "a", "e", "s", "n", "'", "u2019"}

\* C23: every match reported by getPatternMatches ends at the end of the
\* title or right before a boundary character; for a pattern with end-dash
\* (or under pretendDash) the appendix is empty and the span runs from the
\* aligned body to the next boundary; for a pattern without end-dash the
\* text between the aligned body and the end of the match is the appendix,
\* of at most 3 characters among i, a, e, s, n, ' and U+2019.
C23_MatchEnd ==
  Returned("getPatternMatches") =>
    \A k \in DOMAIN call.matches :
      MatchEnd(call.value, patterns_[call.pattern], call.pretendDash,
               call.matches[k])
C23_Witness ==
  /\ Returned("getPatternMatches")
  /\ ~call.pretendDash
  /\ ~patterns_[call.pattern].endDash
  /\ \E k \in DOMAIN call.matches : Len(call.matches[k].appendix) = 2

\* C24: in makeAbbreviation the matches are sorted by ascending priority,
\* and after the overlaps are resolved no two surviving matches strictly
\* intersect (a.end > b.start and b.end > a.start), while every dropped
\* match strictly intersects a surviving match that precedes it in the
\* priority order.
StrictlyIntersect(a, b) == a.iend > b.i /\ b.iend > a.i
Resolved(all, kept, S) ==
  /\ PickFrom(all, S, 1) = kept
  /\ \A a \in S, b \in S : a # b => ~StrictlyIntersect(all[a], all[b])
  /\ \A d \in DOMAIN all \ S :
       \E s \in S : s < d /\ StrictlyIntersect(all[s], all[d])
C24_OverlapResolution ==
  (Returned("makeAbbreviation") /\ ~call.single) =>
    /\ \A a \in DOMAIN call.all, b \in DOMAIN call.all :
         a < b => getPriority(Engine, call.all[a])
                    <= getPriority(Engine, call.all[b])
    /\ \E S \in SUBSET DOMAIN call.all : Resolved(call.all, call.kept, S)
\* A match dropped and two matches kept.
C24_Witness ==
  /\ Returned("makeAbbreviation")
  /\ Len(call.kept) >= 2
  /\ Len(call.all) > Len(call.kept)

\* C25: in one title, every match of a pattern without start-dash has a
\* strictly lower priority value than every match of a pattern with
\* start-dash, whatever the lengths of the matches and of the patterns.
C25_WordStartDominates ==
  Returned("makeAbbreviation") =>
    \A a \in DOMAIN call.all, b \in DOMAIN call.all :
      (/\ ~patterns_[call.all[a].pattern].startDash
       /\ patterns_[call.all[b].pattern].startDash) =>
        getPriority(Engine, call.all[a]) < getPriority(Engine, call.all[b])

\* An article, in lower case or with a capital initial, stands at offset i
\* of s and is followed by whitespace.
ArticleAt(s, i) ==
  \E k \in DOMAIN articles :
    \E w \in {articles[k], Capitalize(articles[k])} :
      WordAt(s, i, w) /\ IsSpace(At(s, i + Len(w)))

\* C26: after the removal of the articles in makeAbbreviation, no article
\* stands at the start of the title or right after a boundary character of
\* the planner and before whitespace, also when the same article stood
\* twice in a row.
C26_ArticlesRemoved ==
  Returned("makeAbbreviation") =>
    /\ ~ArticleAt(call.value, 0)
    /\ \A i \in Positions(call.value) :
         plannerBoundariesRegex(At(call.value, i))
           => ~ArticleAt(call.value, i + 1)

\* C27: the matcher treats '+', '&', '?' and the apostrophe as boundary
\* characters: a pattern without start-dash that matches at the start of
\* what follows one of them matches at that offset of the title, and the
\* span of a pattern with end-dash stops before the first of them; the
\* planner treats none of the four as a boundary.
ExtraBoundaries == {"+", "&", "?", "'"}
MatchesAtStart(value, pattern, languages) ==
  \E r \in {getPatternMatches(value, pattern, languages, FALSE)} :
    ~r.err /\ \E k \in DOMAIN r.matches : r.matches[k].i = 0
C27_TwoBoundarySets ==
  /\ \A c \in ExtraBoundaries : ~plannerBoundariesRegex(c)
  /\ (Returned("getPatternMatches") /\ ~call.pretendDash) =>
       /\ ~patterns_[call.pattern].startDash =>
            \A i \in 1..(Len(call.value) - 1) :
              (/\ call.value[i] \in ExtraBoundaries
               /\ MatchesAtStart(Substr(call.value, i),
                                 patterns_[call.pattern], call.languages))
                => \E k \in DOMAIN call.matches : call.matches[k].i = i
       /\ patterns_[call.pattern].endDash =>
            \A k \in DOMAIN call.matches :
              \A q \in BodyEnd(call.value, patterns_[call.pattern], FALSE,
                               call.matches[k].i)..(call.matches[k].iend - 1) :
                call.value[q + 1] \notin ExtraBoundaries

\* C28: every pattern that getPatternMatches finds in the title (after NFC
\* and trim) is in what getPotentialPatterns returns for the title.
HasMatch(title, pattern) ==
  \E r \in {getPatternMatches(Trim(NFC(title)), pattern, NoLanguages, FALSE)} :
    ~r.err /\ r.matches # <<>>
C28_CandidatesComplete ==
  (Returned("getPotentialPatterns") /\ ~call.pretendDash) =>
    \A id \in DOMAIN patterns_ :
      HasMatch(call.title, patterns_[id]) => Includes(call.result, id)

\* The string of the keys on the path of a node, in UTF-16 units.
PathString(path) ==
  Flatten([k \in DOMAIN path |->
             IF path[k] = "U1F600" THEN <<"uD83D", "uDE00">> ELSE <<path[k]>>])
\* The places (path of the node, index in its bucket) where the object is
\* stored in the tree.
PlacesOf(tree, object) ==
  UNION { {<<path, j>> : j \in {n \in DOMAIN tree[path].bucket :
                                  tree[path].bucket[n][2] = object}} :
          path \in DOMAIN tree }
StoredPairs(tree) ==
  UNION { {<<path, j>> : j \in DOMAIN tree[path].bucket} : path \in DOMAIN tree }

\* C29: after any sequence of add calls, every added (key, object) pair is
\* stored exactly once, in the bucket of a node whose path followed by the
\* stored remaining key is the key; nothing else is stored; and a node has
\* children only if it has been split.  (The keys of the paths and the
\* remaining keys are compared as strings of UTF-16 units.)
C29_StorageInvariant ==
  /\ \A k \in DOMAIN added :
       /\ Cardinality(PlacesOf(root_, added[k][2])) = 1
       /\ \A pl \in PlacesOf(root_, added[k][2]) :
            PathString(pl[1]) \o root_[pl[1]].bucket[pl[2]][1] = added[k][1]
  /\ Cardinality(StoredPairs(root_)) = Len(added)
  /\ \A path \in DOMAIN root_ :
       path # <<>> => root_[SubSeq(path, 1, Len(path) - 1)].split

\* The pattern of the match has the replacement 'not abbreviated'.
IsNotAbbreviated(m) == patterns_[m.pattern].replacement = <<"u2013">>
\* By how much the substitutions of the kept matches that end at or before
\* offset i shorten the title.
RECURSIVE ShortenedBefore(_, _)
ShortenedBefore(kept, i) ==
  IF kept = <<>> THEN 0
  ELSE (IF Head(kept).iend <= i /\ Len(Head(kept).abbr) < Head(kept).iend - Head(kept).i
        THEN Head(kept).iend - Head(kept).i - Len(Head(kept).abbr) ELSE 0)
       + ShortenedBefore(Tail(kept), i)

\* C30: in makeAbbreviation a match of a pattern whose replacement is 'not
\* abbreviated' has the text of its span as abbreviation, is not
\* substituted, and when it survives the resolution of the overlaps no
\* other surviving match intersects its span and the text of the span
\* stands unchanged in the title after the substitutions.
C30_NotAbbreviatedProtected ==
  (Returned("makeAbbreviation") /\ ~call.single) =>
    \A k \in DOMAIN call.all :
      IsNotAbbreviated(call.all[k]) =>
        /\ call.all[k].abbr
             = Substring(call.value, call.all[k].i, call.all[k].iend)
        /\ ~Includes(call.matches, call.all[k])
        /\ Includes(call.kept, call.all[k]) =>
             /\ \A j \in DOMAIN call.kept :
                  call.kept[j] # call.all[k] =>
                    ~StrictlyIntersect(call.kept[j], call.all[k])
             /\ Substring(call.applied,
                          call.all[k].i
                            - ShortenedBefore(call.kept, call.all[k].i),
                          call.all[k].iend
                            - ShortenedBefore(call.kept, call.all[k].i))
                  = Substring(call.value, call.all[k].i, call.all[k].iend)
\* A 'not abbreviated' match is kept, a match that intersects it is
\* dropped, and a substitution before it shortens the title.
C30_Witness ==
  /\ Returned("makeAbbreviation")
  /\ \E k \in DOMAIN call.kept :
       /\ IsNotAbbreviated(call.kept[k])
       /\ ShortenedBefore(call.kept, call.kept[k].i) > 0
       /\ \E j \in DOMAIN call.all :
            /\ ~Includes(call.kept, call.all[j])
            /\ StrictlyIntersect(call.all[j], call.kept[k])

====
